---- MODULE Spec2Model ----
(***************************************************************************)
(* Model of the comment section of the post detail page (DetailPage):     *)
(* the comment table of the backend, the page's React state, the          *)
(* asynchronous comment load fetchComments with its five queries, the     *)
(* in-line assembly of the two-tier comment tree, and the handlers that   *)
(* write comments and reload.                                             *)
(*                                                                         *)
(* Specifications:                                                         *)
(*   SpecAsm  the assembly of fetchComments (lines 196-222) applied to    *)
(*            every bounded input (list, directReplies, nestedReplies);   *)
(*   Spec     the page: handlers and in-flight loads interleaved at       *)
(*            their await points;                                         *)
(*   SpecFair Spec with every query of a load in flight answered;         *)
(*   SpecMut  the page with its like, edit and delete handlers;           *)
(*   SpecApp  the routes of App.tsx, ProtectedRoute and LoginPage;        *)
(*   SpecPost the update and delete requests on posts of DetailPage,      *)
(*            MyPage and EditPage;                                        *)
(*   SpecSearch the recent-search list of lib/searchUtils;                *)
(*   SpecLikes the likes table with its unique key and its trigger;       *)
(*   SpecTags the tag field of the post forms WritePage and EditPage;     *)
(*   SpecInput the page with the checks that the comment, reply and edit  *)
(*            handlers make on the text before they write;                *)
(*   SpecFeed the feed of MainPage: sort option, page counter and the     *)
(*            fetchPosts calls in flight.                                 *)
(***************************************************************************)
EXTENDS Integers, Sequences, FiniteSets, TLC

\* ---------------------------------------------------------------- bounds
\* number of comment identifiers (and so of comment rows) in play
MaxComments == 3
\* ticks per millisecond: created_at is finer than the millisecond that
\* Date.getTime() keeps
SubMs == 2

\* writes the page may send: comments and replies in Spec, and also like
\* toggles, edits and soft deletes in SpecMut
MaxInserts == 1
\* fetchComments invocations in flight at once
MaxLoads == 2
\* largest value the page counter commentPage is allowed to reach
MaxPage == 2
\* like, edit and delete calls in flight at once
MaxWrites == 1
\* number of posts in the post table
MaxPosts == 2
\* number of users who like posts
MaxLikers == 4
\* longest search query typed, in characters
MaxQueryLen == 2
\* length of the recent-search list (10 in the source), scaled down so that
\* the queries of MaxQueryLen characters overflow it
MAX_RECENT == 3
\* fetchPosts calls of MainPage in flight at once
MaxFetches == 2
\* largest value the page counter of MainPage is allowed to reach
MaxFeedPage == 2
\* window of the feed query (12 in the source), scaled down so that three
\* public posts fill more than one window
POSTS_PER_PAGE == 2
\* longest comment text accepted (1000 characters in the source), scaled
\* down; the text fields cut what is typed to this length
COMMENT_MAX_LENGTH == 2
\* window of the top-level query (20 in the source), scaled down so that
\* three top-level comments fill more than one window
COMMENTS_PAGE_SIZE == 2

\* ------------------------------------------------------------ value space
NULL == 0
Ids == 1..MaxComments
\* creation timestamps of the assembly inputs, in ticks: two of the first
\* millisecond and the first of the next one
Times == {0, 1, SubMs}
NoUser == "none"
UserIds == {"u1", "u2"}
NoProfile == "null"

\* a row of public.comments as select('*') returns it (CommentRow); the
\* profiles field is not a column: it is null until attachProfiles fills it
CommentRow(i, p, t, u) ==
    [id |-> i, parent_id |-> p, created_at |-> t, user_id |-> u,
     content |-> "text", likes_count |-> 0, deleted_at |-> NULL, profiles |-> NoProfile]

\* stands for a null / undefined CommentRow in the ReplyItem.parent field
NullRow == CommentRow(NULL, NULL, 0, NoUser)

\* the author of the row with identifier i in the assembly inputs
AuthorOf(i) == IF i % 2 = 1 THEN "u1" ELSE "u2"

\* profiles rows: u1 has a profile row, u2 has none
ProfilesTable == [u \in {"u1"} |-> "p_" \o u]

\* ------------------------------------------------------ sequence helpers
Range(s) == {s[i] : i \in 1..Len(s)}

RECURSIVE Flatten(_)
Flatten(ss) == IF ss = <<>> THEN <<>> ELSE Head(ss) \o Flatten(Tail(ss))

MapIds(s) == [i \in 1..Len(s) |-> s[i].id]

Count(x, s) == Cardinality({i \in 1..Len(s) : s[i] = x})

\* ------------------------------------------------- assembly, lines 196-222
\* new Date(created_at).getTime(): the timestamp in whole milliseconds
getTime(created_at) == created_at \div SubMs

attachProfiles(c, profilesMap) ==
    [c EXCEPT !.profiles =
        IF c.user_id \in DOMAIN profilesMap THEN profilesMap[c.user_id] ELSE NoProfile]

\* Map.set in a forEach: the last row of an identifier wins
directReplyMap(directReplies, profilesMap) ==
    [i \in Range(MapIds(directReplies)) |->
        LET k == CHOOSE k \in 1..Len(directReplies) :
                    /\ directReplies[k].id = i
                    /\ \A m \in (k+1)..Len(directReplies) : directReplies[m].id # i
        IN  attachProfiles(directReplies[k], profilesMap)]

\* direct with the parent filter left out: every direct reply, whatever its parent
direct_AnyParent(c, directReplies, profilesMap) ==
    [i \in 1..Len(directReplies) |-> attachProfiles(directReplies[i], profilesMap)]

\* direct keeping only the replies whose author has a profile row (an inner
\* join on profiles)
direct_OnlyWithProfile(c, directReplies, profilesMap) ==
    LET ofC(r) == r.parent_id = c.id /\ r.user_id \in DOMAIN profilesMap
        sel == SelectSeq(directReplies, ofC)
    IN  [i \in 1..Len(sel) |-> attachProfiles(sel[i], profilesMap)]

\* directReplies.filter((r) => r.parent_id === c.id).map(attachProfiles)
direct(c, directReplies, profilesMap) ==
    LET ofC(r) == r.parent_id = c.id
        sel == SelectSeq(directReplies, ofC)
    IN  [i \in 1..Len(sel) |-> attachProfiles(sel[i], profilesMap)]

\* parentOf with the lookup keyed by the reply's own id: directReplyMap.get(n.id)
parentOf_ByOwnId(n, directReplies, profilesMap) ==
    LET m == directReplyMap(directReplies, profilesMap)
    IN  IF n.id \in DOMAIN m THEN m[n.id] ELSE NullRow

\* the back-reference of a nested reply: directReplyMap.get(n.parent_id)
parentOf(n, directReplies, profilesMap) ==
    LET m == directReplyMap(directReplies, profilesMap)
    IN  IF n.parent_id \in DOMAIN m THEN m[n.parent_id] ELSE NullRow

\* nested with the filter on the ids of all of directReplies (directReplyIds)
\* instead of the ids of this comment's direct replies (directIds)
nested_AnyDirect(c, directReplies, nestedReplies, profilesMap) ==
    LET ofDirect(n) == n.parent_id \in Range(MapIds(directReplies))
        sel == SelectSeq(nestedReplies, ofDirect)
    IN  [i \in 1..Len(sel) |->
            [id |-> sel[i].id, parent_id |-> sel[i].parent_id,
             created_at |-> sel[i].created_at, user_id |-> sel[i].user_id,
             content |-> sel[i].content, likes_count |-> sel[i].likes_count,
             deleted_at |-> sel[i].deleted_at,
             profiles |-> attachProfiles(sel[i], profilesMap).profiles,
             parent |-> parentOf(sel[i], directReplies, profilesMap)]]

\* nested with the filter left out: every nested reply in every group
nested_NoFilter(c, directReplies, nestedReplies, profilesMap) ==
    [i \in 1..Len(nestedReplies) |->
        [id |-> nestedReplies[i].id, parent_id |-> nestedReplies[i].parent_id,
         created_at |-> nestedReplies[i].created_at, user_id |-> nestedReplies[i].user_id,
         content |-> nestedReplies[i].content, likes_count |-> nestedReplies[i].likes_count,
         deleted_at |-> nestedReplies[i].deleted_at,
         profiles |-> attachProfiles(nestedReplies[i], profilesMap).profiles,
         parent |-> parentOf(nestedReplies[i], directReplies, profilesMap)]]

\* nestedReplies.filter((n) => directIds.includes(n.parent_id)).map(...)
nested(c, directReplies, nestedReplies, profilesMap) ==
    LET directIds == Range(MapIds(direct(c, directReplies, profilesMap)))
        ofDirect(n) == n.parent_id \in directIds
        sel == SelectSeq(nestedReplies, ofDirect)
    IN  [i \in 1..Len(sel) |->
            [id |-> sel[i].id, parent_id |-> sel[i].parent_id,
             created_at |-> sel[i].created_at, user_id |-> sel[i].user_id,
             content |-> sel[i].content, likes_count |-> sel[i].likes_count,
             deleted_at |-> sel[i].deleted_at,
             profiles |-> attachProfiles(sel[i], profilesMap).profiles,
             parent |-> parentOf(sel[i], directReplies, profilesMap)]]

\* withNullParent tagging each direct reply with itself: parent: r
withNullParent_SelfParent(d) ==
    [i \in 1..Len(d) |->
        [id |-> d[i].id, parent_id |-> d[i].parent_id, created_at |-> d[i].created_at,
         user_id |-> d[i].user_id, content |-> d[i].content,
         likes_count |-> d[i].likes_count, deleted_at |-> d[i].deleted_at,
         profiles |-> d[i].profiles, parent |-> d[i]]]

\* direct.map((r) => ({ ...r, parent: null }))
withNullParent(d) ==
    [i \in 1..Len(d) |->
        [id |-> d[i].id, parent_id |-> d[i].parent_id, created_at |-> d[i].created_at,
         user_id |-> d[i].user_id, content |-> d[i].content,
         likes_count |-> d[i].likes_count, deleted_at |-> d[i].deleted_at,
         profiles |-> d[i].profiles, parent |-> NullRow]]

\* the sort with the comparator turned round: getTime(a) - getTime(b)
RECURSIVE sortByCreatedAsc(_)
sortByCreatedAsc(s) ==
    IF s = <<>> THEN <<>>
    ELSE LET pre == sortByCreatedAsc(SubSeq(s, 1, Len(s) - 1))
             x == s[Len(s)]
             notAfter(e) == getTime(e.created_at) <= getTime(x.created_at)
             after(e) == getTime(e.created_at) > getTime(x.created_at)
         IN  SelectSeq(pre, notAfter) \o <<x>> \o SelectSeq(pre, after)

\* Array.prototype.sort with (a, b) => getTime(b) - getTime(a): a stable sort
\* (ECMAScript 2019), so items the comparator calls equal keep their order
RECURSIVE sortByCreatedDesc(_)
sortByCreatedDesc(s) ==
    IF s = <<>> THEN <<>>
    ELSE LET pre == sortByCreatedDesc(SubSeq(s, 1, Len(s) - 1))
             x == s[Len(s)]
             notAfter(e) == getTime(e.created_at) >= getTime(x.created_at)
             after(e) == getTime(e.created_at) < getTime(x.created_at)
         IN  SelectSeq(pre, notAfter) \o <<x>> \o SelectSeq(pre, after)

flatReplies(c, directReplies, nestedReplies, profilesMap) ==
    sortByCreatedDesc(
        withNullParent(direct(c, directReplies, profilesMap))
            \o nested(c, directReplies, nestedReplies, profilesMap))

\* withReplies with the groups emitted in reverse order of list
withReplies_Reversed(list, directReplies, nestedReplies, profilesMap) ==
    [k \in 1..Len(list) |->
        LET c == list[Len(list) + 1 - k] IN
        [id |-> c.id, parent_id |-> c.parent_id,
         created_at |-> c.created_at, user_id |-> c.user_id,
         content |-> c.content, likes_count |-> c.likes_count,
         deleted_at |-> c.deleted_at,
         profiles |-> attachProfiles(c, profilesMap).profiles,
         replies |-> flatReplies(c, directReplies, nestedReplies, profilesMap)]]

\* withReplies with a group for every fetched row that has no parent among
\* the fetched rows: the rows of list, and the direct replies when list is empty
withReplies_PerRootRow(list, directReplies, nestedReplies, profilesMap) ==
    LET roots == IF list = <<>> THEN directReplies ELSE list IN
    [k \in 1..Len(roots) |->
        [id |-> roots[k].id, parent_id |-> roots[k].parent_id,
         created_at |-> roots[k].created_at, user_id |-> roots[k].user_id,
         content |-> roots[k].content, likes_count |-> roots[k].likes_count,
         deleted_at |-> roots[k].deleted_at,
         profiles |-> attachProfiles(roots[k], profilesMap).profiles,
         replies |-> flatReplies(roots[k], directReplies, nestedReplies, profilesMap)]]

\* list.map((c) => ({ ...attachProfiles(c), replies: flatReplies }))
withReplies(list, directReplies, nestedReplies, profilesMap) ==
    [k \in 1..Len(list) |->
        [id |-> list[k].id, parent_id |-> list[k].parent_id,
         created_at |-> list[k].created_at, user_id |-> list[k].user_id,
         content |-> list[k].content, likes_count |-> list[k].likes_count,
         deleted_at |-> list[k].deleted_at,
         profiles |-> attachProfiles(list[k], profilesMap).profiles,
         replies |-> flatReplies(list[k], directReplies, nestedReplies, profilesMap)]]

\* ------------------------------------------------------------------ state
VARIABLES
    asm,                \* one run of the assembly: its inputs, its position, its output
    db,                 \* rows of public.comments of this post
    comment_likes,      \* rows of public.comment_likes, as <<comment_id, user_id>>
    user,               \* useAuth().user: the signed-in user's id, or NoUser
    effectRan,          \* the effect of lines 242-246 has fired
    comments,           \* useState comments: the displayed groups
    commentsLoading,    \* useState commentsLoading
    commentPage,        \* useState commentPage
    hasMoreComments,    \* useState hasMoreComments
    likedCommentIds,    \* useState likedCommentIds
    commentSubmit,      \* the handleSubmitComment call in flight
    replySubmit,        \* the handleSubmitReply call in flight
    inserts,            \* number of writes (inserts and the others) the page has sent so far
    toast,              \* the last toast shown
    loads,              \* the fetchComments calls in flight, by slot
    replyToId,          \* useState replyToId: the item whose reply form is open
    editCommentId,      \* useState editCommentId: the item being edited
    writes,             \* the like, edit and delete calls of the page, by slot
    path,               \* location.pathname
    stateFrom,          \* location.state.from
    authLoading,        \* useAuth().loading
    loginCall,          \* the LoginPage.handleSubmit call in flight
    session,            \* the user of the backend's auth session
    signingOut,         \* a Navigation.handleSignOut call is in flight
    posts,              \* rows of public.posts
    postRequest,        \* the last update or delete sent to public.posts
    editPage,           \* the state of EditPage while it is mounted
    recent,             \* localStorage item myblog_recent_search, parsed
    likes,              \* public.likes: the number of rows per <<post_id, user_id>>
    likes_count,         \* posts.likes_count, per post
    tags,               \* useState tags of WritePage / EditPage
    tagInput,           \* useState tagInput: the text in the tag field
    mainPage,           \* the useState values of MainPage
    fetchCalls          \* the MainPage.fetchPosts calls in flight

pageVars == <<db, comment_likes, user, effectRan, comments, commentsLoading, commentPage,
              hasMoreComments, likedCommentIds, commentSubmit, replySubmit, inserts, toast,
              loads>>

\* the state of DetailPage that the like, edit and delete handlers add
mutVars == <<replyToId, editCommentId, writes>>

\* the router, the auth context and the post table
appVars == <<path, stateFrom, authLoading, session, signingOut, loginCall, posts,
             postRequest, editPage>>

\* the state of the rest of the site: browser storage, the likes of posts,
\* the tag field of a post form, the feed of MainPage
searchVars == <<recent>>
likeVars == <<likes, likes_count>>
tagVars == <<tags, tagInput>>
feedVars == <<mainPage, fetchCalls>>
siteVars == <<searchVars, likeVars, tagVars, feedVars>>

vars == <<asm, pageVars, mutVars, appVars, siteVars>>

\* the state of DetailPage that the router and the auth context leave alone
pageRest == <<db, comment_likes, effectRan, comments, commentsLoading, commentPage,
              hasMoreComments, likedCommentIds, commentSubmit, replySubmit, inserts, toast,
              loads>>

Slots == 1..MaxLoads

\* a fetchComments call: page, append and the user its closure holds, its
\* position pc, the response resp not yet consumed, and its locals. Kept for
\* the properties only: resolved (the queries that have resolved), failed
\* (a query of this call returned an error), older (the calls that were in
\* flight when this one started), stale (a call started later has stored
\* its result), forReply (the reply whose insertion started this call)
IdleLoad ==
    [pc |-> "idle", page |-> 0, append |-> FALSE, user |-> NoUser,
     respOk |-> TRUE, resp |-> <<>>,
     list |-> <<>>, directReplies |-> <<>>, nestedReplies |-> <<>>,
     profilesMap |-> <<>>, withReplies |-> <<>>, myLiked |-> {},
     resolved |-> {}, failed |-> FALSE, older |-> {}, stale |-> FALSE, forReply |-> NULL]

IdleSubmit == [pc |-> "idle", parent_id |-> NULL, ok |-> TRUE, id |-> NULL]

\* a handleToggleLike, handleSaveEdit or handleDeleteComment call: its kind,
\* its position pc, the comment it is about, the user and the liked flag its
\* closure holds, and the backend's answer
WriteSlots == 1..MaxWrites
IdleWrite ==
    [pc |-> "idle", kind |-> "none", commentId |-> NULL, user |-> NoUser,
     liked |-> FALSE, ok |-> TRUE]

\* a location: the route pattern of App.tsx that matches the pathname, and
\* the :id parameter where the pattern has one
Route(name, id) == [name |-> name, id |-> id]
\* location.state without a from field
NoPath == Route("none", NULL)
PostIds == 1..MaxPosts
Paths ==
    {Route(n, NULL) : n \in {"/", "/search", "/write", "/login", "/signup", "/mypage",
                              "/mypage/edit"}}
        \cup {Route(n, i) : n \in {"/post/:id", "/edit/:id"}, i \in PostIds}

\* a LoginPage.handleSubmit call: the location.state.from its closure holds,
\* the user whose credentials were typed, and the backend's answer; pc is
\* "done" once the last call has returned
IdleLogin == [pc |-> "idle", from |-> NoPath, ok |-> TRUE, user |-> NoUser]

\* a row of public.posts; odd posts are written by u1, even ones by u2
PostRow(i) == [id |-> i, user_id |-> AuthorOf(i), title |-> "title"]
Blog == {PostRow(i) : i \in PostIds}

\* an update or delete on public.posts: the page that sends it, the value of
\* eq('id', ...), whether an eq('user_id', ...) filter is set and its value,
\* the user signed in when it was sent, and the backend's answer
NoRequest ==
    [pc |-> "idle", op |-> "none", page |-> "none", id |-> NULL, filtered |-> FALSE,
     user_id |-> NoUser, by |-> NoUser, ok |-> TRUE]

\* EditPage: not mounted, and as its useState calls leave it (lines 40-43);
\* fetches holds the users whose fetchPost call is in flight
UnmountedEdit ==
    [mounted |-> FALSE, loading |-> TRUE, post |-> NULL, forbidden |-> FALSE,
     fetches |-> {}]
MountedEdit == [UnmountedEdit EXCEPT !.mounted = TRUE]

\* users of the backend who like posts
Likers == 1..MaxLikers

\* the rest of the site before it is used: empty browser storage, no like
\* MainPage lines 71-76: the useState values of the page before its effects
UnmountedMainPage ==
    [mounted |-> FALSE, posts |-> <<>>, loading |-> TRUE, loadingMore |-> FALSE,
     hasMore |-> TRUE, sortBy |-> "latest", page |-> 0]

\* a fetchPosts call: its arguments, its position, the answer of its query
FetchSlots == 1..MaxFetches
IdleFetch ==
    [pc |-> "idle", pageNum |-> 0, sort |-> "latest", append |-> FALSE, ok |-> TRUE,
     postsData |-> <<>>]

SiteIdle ==
    /\ recent = <<>>
    /\ likes = [k \in PostIds \X Likers |-> 0]
    /\ likes_count = [p \in PostIds |-> 0]
    /\ tags = <<>>
    /\ tagInput = <<>>
    /\ mainPage = UnmountedMainPage
    /\ fetchCalls = [c \in FetchSlots |-> IdleFetch]

\* the app outside DetailPage, while the visitor is on the page of post 1
\* with the auth state loaded
AtDetailPage ==
    /\ path = Route("/post/:id", 1)
    /\ stateFrom = NoPath
    /\ authLoading = FALSE
    /\ session = user
    /\ signingOut = FALSE
    /\ loginCall = IdleLogin
    /\ posts = Blog
    /\ postRequest = NoRequest
    /\ editPage = UnmountedEdit

AsmIdle ==
    [pc |-> "idle", list |-> <<>>, directReplies |-> <<>>, nestedReplies |-> <<>>,
     profilesMap |-> <<>>, withReplies |-> <<>>]

\* ------------------------------------------------- SpecAsm: the assembly
InjSeqs(k) == {s \in [1..k -> Ids] : \A i, j \in 1..k : i # j => s[i] # s[j]}

\* rows ids[from..to] with their parent and timestamp
RowsOf(ids, par, tm, from, to) ==
    [i \in 1..(to - from + 1) |->
        CommentRow(ids[from + i - 1], par[from + i - 1], tm[from + i - 1],
                   AuthorOf(ids[from + i - 1]))]

\* list arrives ordered by created_at descending (order(...) of line 147)
IsDescending(rows) ==
    \A i \in 1..(Len(rows) - 1) : rows[i].created_at >= rows[i + 1].created_at

\* every (list, directReplies, nestedReplies) over at most MaxComments rows
\* with unique identifiers, at most MaxComments - 1 of them replies: the rows
\* of list have no parent and are in query order; a reply names any other
\* identifier as its parent, and the replies come in any order
AsmInput ==
    \E k \in 0..MaxComments : \E ids \in InjSeqs(k) :
    \E a \in 0..k : \E b \in a..k :
    \E par \in [(a + 1)..k -> Ids] : \E tm \in [1..k -> Times] :
        /\ k - a <= MaxComments - 1
        /\ \A i \in (a + 1)..k : par[i] # ids[i]
        /\ IsDescending(RowsOf(ids, [i \in 1..k |-> NULL], tm, 1, a))
        /\ LET parent == [i \in 1..k |-> IF i <= a THEN NULL ELSE par[i]] IN
           asm = [pc |-> "input",
                  list |-> RowsOf(ids, parent, tm, 1, a),
                  directReplies |-> RowsOf(ids, parent, tm, a + 1, b),
                  nestedReplies |-> RowsOf(ids, parent, tm, b + 1, k),
                  profilesMap |-> ProfilesTable,
                  withReplies |-> <<>>]

\* comment tables a post may have when the page is mounted: no comment; one
\* thread of a comment, a reply and a reply to the reply; three top-level
\* comments
NoComments == {}
Thread == {CommentRow(1, NULL, 0, "u1"), CommentRow(2, 1, 1, "u2"),
           CommentRow(3, 2, 2, "u1")}
ThreeTopLevel == {CommentRow(1, NULL, 0, "u1"), CommentRow(2, NULL, 1, "u2"),
                  CommentRow(3, NULL, 2, "u1")}
InitialTables == {NoComments, Thread, ThreeTopLevel}

\* the page at mount: the post is loaded, no comment is loaded yet
InitPage ==
    /\ db \in InitialTables
    /\ inserts = 0
    /\ comment_likes = {}
    /\ user \in {"u1", NoUser}
    /\ effectRan = FALSE
    /\ comments = <<>>
    /\ commentsLoading = FALSE
    /\ commentPage = 0
    /\ hasMoreComments = TRUE
    /\ likedCommentIds = {}
    /\ commentSubmit = IdleSubmit
    /\ replySubmit = IdleSubmit
    /\ toast = "none"
    /\ loads = [s \in Slots |-> IdleLoad]
    /\ replyToId = NULL
    /\ editCommentId = NULL
    /\ writes = [w \in WriteSlots |-> IdleWrite]
    /\ AtDetailPage
    /\ SiteIdle

\* lines 196-222, run once on the inputs
Assemble ==
    /\ asm.pc = "input"
    /\ asm' = [asm EXCEPT !.pc = "done",
                          !.withReplies = withReplies(asm.list, asm.directReplies,
                                                      asm.nestedReplies, asm.profilesMap)]
    /\ UNCHANGED <<pageVars, mutVars, appVars, siteVars>>

NextAsm == Assemble

\* the assembly alone: the page is mounted on a post without comments and
\* stays as it is
InitAsm ==
    /\ InitPage
    /\ user = NoUser
    /\ db = NoComments
    /\ AsmInput

SpecAsm == InitAsm /\ [][NextAsm]_vars

\* ------------------------------------------------------- backend queries
Min(a, b) == IF a <= b THEN a ELSE b

\* order('created_at', { ascending: false }): the rows of S by created_at
\* descending; rows of equal created_at come in an order the backend picks
OrderedDesc(S) ==
    {s \in [1..Cardinality(S) -> S] :
        /\ \A i, j \in 1..Cardinality(S) : i # j => s[i] # s[j]
        /\ IsDescending(s)}

\* range(from, to) on an ordered result
rangeOf(s, from, to) == SubSeq(s, from + 1, Min(to + 1, Len(s)))

\* lines 142-148: the top-level comments of the post
TopLevelRows == {r \in db : r.parent_id = NULL}

\* lines 162-166 and 172-176: the rows whose parent_id is in ids
RowsWithParentIn(ids) == {r \in db : r.parent_id \in ids}

\* lines 127-131: the comment ids liked by user u
LikedBy(u) == {l[1] : l \in {m \in comment_likes : m[2] = u}}

\* lines 180-194: the profile rows of the authors of the fetched rows
ProfilesOf(list, directReplies, nestedReplies) ==
    LET userIds == {r.user_id : r \in Range(list) \cup Range(directReplies)
                                        \cup Range(nestedReplies)}
    IN  [u \in userIds \cap DOMAIN ProfilesTable |-> ProfilesTable[u]]

\* the backend's clock at an insert: the tick of the newest row or the next
LastTime == IF db = {} THEN 0
            ELSE CHOOSE t \in {r.created_at : r \in db} :
                    \A r \in db : r.created_at <= t
NextId == Cardinality(db) + 1

\* ------------------------------------------------- fetchComments, 135-240
FreeSlots == {s \in Slots : loads[s].pc = "idle"}
FreeSlot == CHOOSE s \in FreeSlots : \A o \in FreeSlots : s <= o

\* lines 137-148: the call up to its first await, in slot FreeSlot
started(ls, page, append, forReply) ==
    [ls EXCEPT ![FreeSlot] =
        [IdleLoad EXCEPT !.pc = "top", !.page = page, !.append = append, !.user = user,
                         !.older = {o \in Slots : ls[o].pc # "idle"},
                         !.forReply = forReply]]

\* the call in slot s returns; stored says that it has set comments
finished(ls, s, stored) ==
    [o \in Slots |->
        IF o = s THEN IdleLoad
        ELSE [ls[o] EXCEPT !.older = @ \ {s},
                           !.stale = @ \/ (stored /\ o \in ls[s].older /\ ls[o].pc # "idle")]]

\* lines 142-148: the backend answers the top-level query of slot s
TopQueryServed(s) ==
    /\ loads[s].pc = "top"
    /\ \E ok \in BOOLEAN : \E ordered \in OrderedDesc(TopLevelRows) :
        LET from == loads[s].page * COMMENTS_PAGE_SIZE
            to == from + COMMENTS_PAGE_SIZE - 1
        IN  loads' = [loads EXCEPT ![s].pc = "topResp",
                                   ![s].respOk = ok,
                                   ![s].resp = IF ok THEN rangeOf(ordered, from, to) ELSE <<>>]
    /\ UNCHANGED <<mutVars, appVars, asm, siteVars, inserts, db, comment_likes, user, effectRan, comments, commentsLoading,
                   commentPage, hasMoreComments, likedCommentIds, commentSubmit,
                   replySubmit, toast>>

\* TopQueryResolved whose return on an empty appended window of line 155
\* leaves without the finally block
TopQueryResolved_NoFinally(s) ==
    /\ loads[s].pc = "topResp"
    /\ IF ~loads[s].respOk
       THEN \* throw topError: catch, finally
            /\ toast' = "loadFailed"
            /\ commentsLoading' = FALSE
            /\ loads' = finished(loads, s, FALSE)
            /\ UNCHANGED <<hasMoreComments, comments>>
       ELSE /\ hasMoreComments' = (Len(loads[s].resp) = COMMENTS_PAGE_SIZE)
            /\ IF loads[s].resp = <<>>
               THEN /\ comments' = IF loads[s].append THEN comments ELSE <<>>
                    /\ commentsLoading' = IF loads[s].append THEN commentsLoading ELSE FALSE
                    /\ loads' = finished(loads, s, ~loads[s].append)
                    /\ UNCHANGED toast
               ELSE /\ loads' = [loads EXCEPT ![s].pc = "direct",
                                              ![s].list = loads[s].resp,
                                              ![s].resp = <<>>,
                                              ![s].resolved = @ \cup {"top"}]
                    /\ UNCHANGED <<comments, commentsLoading, toast>>
    /\ UNCHANGED <<mutVars, appVars, asm, siteVars, inserts, db, comment_likes, user, effectRan, commentPage, likedCommentIds,
                   commentSubmit, replySubmit>>

\* lines 150-159, 232-237: the call of slot s resumes with the top-level rows
TopQueryResolved(s) ==
    /\ loads[s].pc = "topResp"
    /\ IF ~loads[s].respOk
       THEN \* throw topError: catch, finally
            /\ toast' = "loadFailed"
            /\ commentsLoading' = FALSE
            /\ loads' = finished(loads, s, FALSE)
            /\ UNCHANGED <<hasMoreComments, comments>>
       ELSE /\ hasMoreComments' = (Len(loads[s].resp) = COMMENTS_PAGE_SIZE)
            /\ IF loads[s].resp = <<>>
               THEN /\ comments' = IF loads[s].append THEN comments ELSE <<>>
                    /\ commentsLoading' = FALSE
                    /\ loads' = finished(loads, s, ~loads[s].append)
                    /\ UNCHANGED toast
               ELSE /\ loads' = [loads EXCEPT ![s].pc = "direct",
                                              ![s].list = loads[s].resp,
                                              ![s].resp = <<>>,
                                              ![s].resolved = @ \cup {"top"}]
                    /\ UNCHANGED <<comments, commentsLoading, toast>>
    /\ UNCHANGED <<mutVars, appVars, asm, siteVars, inserts, db, comment_likes, user, effectRan, commentPage, likedCommentIds,
                   commentSubmit, replySubmit>>

\* RepliesFetched going on to the profile query without the nested-reply query
RepliesFetched_SkipNested(s) ==
    /\ loads[s].pc = "direct"
    /\ \E ok \in BOOLEAN :
       \E ordered \in OrderedDesc(RowsWithParentIn(Range(MapIds(loads[s].list)))) :
        loads' = [loads EXCEPT ![s].pc = "profiles",
                               ![s].directReplies = IF ok THEN ordered ELSE <<>>,
                               ![s].failed = @ \/ ~ok,
                               ![s].resolved = @ \cup {"direct"}]
    /\ UNCHANGED <<mutVars, appVars, asm, siteVars, inserts, db, comment_likes, user, effectRan, comments, commentsLoading,
                   commentPage, hasMoreComments, likedCommentIds, commentSubmit,
                   replySubmit, toast>>

\* lines 161-171: the direct replies of the fetched top-level rows; an error
\* of this query is not looked at, its data is then null
RepliesFetched(s) ==
    /\ loads[s].pc = "direct"
    /\ \E ok \in BOOLEAN :
       \E ordered \in OrderedDesc(RowsWithParentIn(Range(MapIds(loads[s].list)))) :
        LET directReplies == IF ok THEN ordered ELSE <<>> IN
        loads' = [loads EXCEPT ![s].pc = IF Len(directReplies) > 0 THEN "nested"
                                         ELSE "profiles",
                               ![s].directReplies = directReplies,
                               ![s].failed = @ \/ ~ok,
                               ![s].resolved = @ \cup {"direct"}]
    /\ UNCHANGED <<mutVars, appVars, asm, siteVars, inserts, db, comment_likes, user, effectRan, comments, commentsLoading,
                   commentPage, hasMoreComments, likedCommentIds, commentSubmit,
                   replySubmit, toast>>

\* lines 171-178: the replies of the fetched direct replies
NestedFetched(s) ==
    /\ loads[s].pc = "nested"
    /\ \E ok \in BOOLEAN :
       \E ordered \in OrderedDesc(RowsWithParentIn(Range(MapIds(loads[s].directReplies)))) :
        loads' = [loads EXCEPT ![s].pc = "profiles",
                               ![s].nestedReplies = IF ok THEN ordered ELSE <<>>,
                               ![s].failed = @ \/ ~ok,
                               ![s].resolved = @ \cup {"nested"}]
    /\ UNCHANGED <<mutVars, appVars, asm, siteVars, inserts, db, comment_likes, user, effectRan, comments, commentsLoading,
                   commentPage, hasMoreComments, likedCommentIds, commentSubmit,
                   replySubmit, toast>>

\* lines 224-237: setLikedCommentIds, setComments and the finally block
stored(s, myLiked) ==
    /\ likedCommentIds' = myLiked
    /\ comments' = IF loads[s].append THEN comments \o loads[s].withReplies
                   ELSE loads[s].withReplies
    /\ commentsLoading' = FALSE
    /\ loads' = finished(loads, s, TRUE)

\* lines 180-224: the profiles of the authors resolve, the tree is assembled
\* and fetchMyLikedComments is called; without a user that call returns an
\* empty set at once (line 126) and the result is stored in the same turn
ProfilesFetched(s) ==
    /\ loads[s].pc = "profiles"
    /\ \E ok \in BOOLEAN :
        LET l == loads[s]
            profilesMap == IF ok THEN ProfilesOf(l.list, l.directReplies, l.nestedReplies)
                           ELSE <<>>
            assembled == [l EXCEPT !.pc = "likes",
                                   !.profilesMap = profilesMap,
                                   !.withReplies = withReplies(l.list, l.directReplies,
                                                               l.nestedReplies, profilesMap),
                                   !.failed = @ \/ ~ok,
                                   !.resolved = @ \cup {"profiles"}]
        IN  IF l.user = NoUser
            THEN /\ likedCommentIds' = {}
                 /\ comments' = IF l.append THEN comments \o assembled.withReplies
                                ELSE assembled.withReplies
                 /\ commentsLoading' = FALSE
                 /\ loads' = finished(loads, s, TRUE)
            ELSE /\ loads' = [loads EXCEPT ![s] = assembled]
                 /\ UNCHANGED <<likedCommentIds, comments, commentsLoading>>
    /\ UNCHANGED <<mutVars, appVars, asm, siteVars, inserts, db, comment_likes, user, effectRan, commentPage, hasMoreComments,
                   commentSubmit, replySubmit, toast>>

\* lines 127-130: the backend answers the like-membership query of slot s;
\* an error is not looked at, its data is then null
LikesQueryServed(s) ==
    /\ loads[s].pc = "likes"
    /\ \E ok \in BOOLEAN :
        loads' = [loads EXCEPT ![s].pc = "likesResp",
                               ![s].myLiked = IF ok THEN LikedBy(loads[s].user) ELSE {},
                               ![s].failed = @ \/ ~ok,
                               ![s].resolved = @ \cup {"likes"}]
    /\ UNCHANGED <<mutVars, appVars, asm, siteVars, inserts, db, comment_likes, user, effectRan, comments, commentsLoading,
                   commentPage, hasMoreComments, likedCommentIds, commentSubmit,
                   replySubmit, toast>>

\* lines 131-132, 224-237: the call of slot s resumes and stores its result
LikesResolved(s) ==
    /\ loads[s].pc = "likesResp"
    /\ stored(s, loads[s].myLiked)
    /\ UNCHANGED <<mutVars, appVars, asm, siteVars, inserts, db, comment_likes, user, effectRan, commentPage, hasMoreComments,
                   commentSubmit, replySubmit, toast>>

\* ----------------------------------------------------------- the handlers
\* lines 242-246: the effect that loads the first window once the post is in
InitialLoad ==
    /\ ~effectRan
    /\ effectRan' = TRUE
    /\ commentsLoading' = TRUE
    /\ loads' = started(loads, 0, FALSE, NULL)
    /\ UNCHANGED <<mutVars, appVars, asm, siteVars, inserts, db, comment_likes, user, comments, commentPage, hasMoreComments,
                   likedCommentIds, commentSubmit, replySubmit, toast>>

\* lines 248-252, behind the button of lines 804-813
loadMoreComments ==
    /\ hasMoreComments /\ Len(comments) > 0 /\ ~commentsLoading
    /\ commentPage < MaxPage
    /\ FreeSlots # {}
    /\ commentPage' = commentPage + 1
    /\ commentsLoading' = TRUE
    /\ loads' = started(loads, commentPage + 1, TRUE, NULL)
    /\ UNCHANGED <<mutVars, appVars, asm, siteVars, inserts, db, comment_likes, user, effectRan, comments, hasMoreComments,
                   likedCommentIds, commentSubmit, replySubmit, toast>>

\* lines 254-276, behind the form of lines 684-709: up to the insert
handleSubmitComment ==
    /\ effectRan
    /\ user # NoUser
    /\ commentSubmit.pc = "idle"
    /\ inserts < MaxInserts
    /\ inserts' = inserts + 1
    /\ commentSubmit' = [IdleSubmit EXCEPT !.pc = "sent"]
    /\ UNCHANGED <<mutVars, appVars, asm, siteVars, db, comment_likes, user, effectRan, comments, commentsLoading,
                   commentPage, hasMoreComments, likedCommentIds, replySubmit, toast, loads>>

\* lines 289-303, behind the reply buttons of lines 579-588 and 734-740:
\* a reply to any displayed comment or reply, up to the insert
DisplayedIds ==
    Range(MapIds(comments))
        \cup UNION {Range(MapIds(comments[k].replies)) : k \in 1..Len(comments)}

\* the displayed items, each as the CommentRow that CommentBlock is given
\* (lines 718 and 759)
AsRow(c) ==
    [id |-> c.id, parent_id |-> c.parent_id, created_at |-> c.created_at,
     user_id |-> c.user_id, content |-> c.content, likes_count |-> c.likes_count,
     deleted_at |-> c.deleted_at, profiles |-> c.profiles]

DisplayedRows ==
    {AsRow(comments[k]) : k \in 1..Len(comments)}
        \cup UNION {{AsRow(comments[k].replies[m]) : m \in 1..Len(comments[k].replies)} :
                        k \in 1..Len(comments)}

\* lines 489-608: what CommentBlock derives from the item and the page state
\* and what it renders: the body, and which of the four buttons
CommentBlock(c) ==
    LET isOwn == user # NoUser /\ user = c.user_id
        liked == c.id \in likedCommentIds
        isDeleted == c.deleted_at # NULL
        isEditing == ~isDeleted /\ editCommentId = c.id
    IN  [isOwn |-> isOwn, liked |-> liked, isDeleted |-> isDeleted, isEditing |-> isEditing,
         nickname |-> IF c.profiles = NoProfile THEN "unknown" ELSE c.profiles,
         body |-> IF isDeleted THEN "deletedPlaceholder"
                  ELSE IF isEditing THEN "editForm" ELSE c.content,
         likeButton |-> ~isEditing /\ ~isDeleted /\ user # NoUser,
         replyButton |-> ~isEditing /\ ~isDeleted /\ user # NoUser,
         editButton |-> ~isEditing /\ ~isDeleted /\ isOwn,
         deleteButton |-> ~isEditing /\ ~isDeleted /\ isOwn]

\* lines 719 and 760: the reply form is rendered under the item of identifier i
ReplyFormShown(i) == replyToId = i /\ i \in DisplayedIds

\* lines 473-478, behind the reply button of lines 579-588
openReplyInput ==
    /\ \E c \in DisplayedRows :
        /\ CommentBlock(c).replyButton
        /\ replyToId # c.id
        /\ replyToId' = c.id
    /\ UNCHANGED <<pageVars, editCommentId, writes, appVars, asm, siteVars>>

\* lines 289-303: the reply form's submit button (lines 734-740, 775-781),
\* on a form that is open or that the reply button opens, up to the insert
handleSubmitReplyTo(parentId) ==
    /\ user # NoUser
    /\ parentId \in DisplayedIds
    /\ \/ ReplyFormShown(parentId)
       \/ \E c \in DisplayedRows : c.id = parentId /\ CommentBlock(c).replyButton
    /\ replySubmit.pc = "idle"
    /\ inserts < MaxInserts
    /\ inserts' = inserts + 1
    /\ replyToId' = parentId
    /\ replySubmit' = [IdleSubmit EXCEPT !.pc = "sent", !.parent_id = parentId]
    /\ UNCHANGED <<editCommentId, writes, appVars, asm, siteVars, db, comment_likes, user, effectRan,
                   comments, commentsLoading, commentPage, hasMoreComments, likedCommentIds,
                   commentSubmit, toast, loads>>

handleSubmitReply == \E parentId \in DisplayedIds : handleSubmitReplyTo(parentId)

\* the backend runs the insert of lines 271-276 or 298-303, or rejects it
inserted(submit) ==
    \E ok \in BOOLEAN : \E t \in {LastTime, LastTime + 1} :
        /\ submit' = [submit EXCEPT !.pc = "resp", !.ok = ok,
                                    !.id = IF ok THEN NextId ELSE NULL]
        /\ db' = IF ok THEN db \cup {CommentRow(NextId, submit.parent_id, t, user)}
                 ELSE db

CommentInsertServed ==
    /\ commentSubmit.pc = "sent"
    /\ inserted(commentSubmit)
    /\ UNCHANGED <<mutVars, appVars, asm, siteVars, inserts, comment_likes, user, effectRan, comments, commentsLoading,
                   commentPage, hasMoreComments, likedCommentIds, replySubmit, toast, loads>>

ReplyInsertServed ==
    /\ replySubmit.pc = "sent"
    /\ inserted(replySubmit)
    /\ UNCHANGED <<mutVars, appVars, asm, siteVars, inserts, comment_likes, user, effectRan, comments, commentsLoading,
                   commentPage, hasMoreComments, likedCommentIds, commentSubmit, toast,
                   loads>>

\* lines 277-286 and 304-314: the handler resumes after the insert
resumed(submit, done, failedToast) ==
    /\ submit.pc = "resp"
    /\ IF submit.ok
       THEN /\ FreeSlots # {}
            /\ toast' = done
            /\ commentsLoading' = TRUE
            /\ loads' = started(loads, 0, FALSE,
                                IF submit.parent_id = NULL THEN NULL ELSE submit.id)
       ELSE /\ toast' = failedToast
            /\ UNCHANGED <<commentsLoading, loads>>
    /\ submit' = IdleSubmit

CommentInsertResolved ==
    /\ resumed(commentSubmit, "commentDone", "commentFailed")
    /\ UNCHANGED <<mutVars, appVars, asm, siteVars, inserts, db, comment_likes, user, effectRan, comments, commentPage,
                   hasMoreComments, likedCommentIds, replySubmit>>

\* line 306: a reply that was inserted closes the reply form
ReplyInsertResolved ==
    /\ resumed(replySubmit, "replyDone", "replyFailed")
    /\ replyToId' = IF replySubmit.ok THEN NULL ELSE replyToId
    /\ UNCHANGED <<editCommentId, writes, appVars, asm, siteVars, inserts, db, comment_likes, user,
                   effectRan, comments, commentPage, hasMoreComments, likedCommentIds,
                   commentSubmit>>

Next ==
    \/ InitialLoad
    \/ loadMoreComments
    \/ handleSubmitComment
    \/ CommentInsertServed
    \/ CommentInsertResolved
    \/ handleSubmitReply
    \/ ReplyInsertServed
    \/ ReplyInsertResolved
    \/ \E s \in Slots : TopQueryServed(s)
    \/ \E s \in Slots : TopQueryResolved(s)
    \/ \E s \in Slots : RepliesFetched(s)
    \/ \E s \in Slots : NestedFetched(s)
    \/ \E s \in Slots : ProfilesFetched(s)
    \/ \E s \in Slots : LikesQueryServed(s)
    \/ \E s \in Slots : LikesResolved(s)

Init == asm = AsmIdle /\ InitPage

Spec == Init /\ [][Next]_vars

\* every await of fetchComments is a backend query of supabase-js, whose
\* promise settles with data or with an error, and whose continuation the
\* event loop then runs: a call in flight takes its next step
LoadFairness ==
    \A s \in Slots :
        /\ WF_vars(TopQueryServed(s))
        /\ WF_vars(TopQueryResolved(s))
        /\ WF_vars(RepliesFetched(s))
        /\ WF_vars(NestedFetched(s))
        /\ WF_vars(ProfilesFetched(s))
        /\ WF_vars(LikesQueryServed(s))
        /\ WF_vars(LikesResolved(s))

SpecFair == Init /\ [][Next]_vars /\ LoadFairness

\* ------------------------------- DetailPage: like, edit and delete calls
FreeWrites == {w \in WriteSlots : writes[w].pc = "idle"}
FreeWrite == CHOOSE w \in FreeWrites : \A o \in FreeWrites : w <= o
DoneWrite == [IdleWrite EXCEPT !.pc = "done"]

\* a handler calls fetchComments(0, false) without awaiting it
reloaded ==
    /\ FreeSlots # {}
    /\ commentsLoading' = TRUE
    /\ loads' = started(loads, 0, FALSE, NULL)

\* the user of useAuth() changes while the page is mounted: a sign-out, or
\* another session taking over, that the auth listener reports. Each user
\* is signed in at most once: u1, then u2, then nobody
LaterUsers == IF user = "u1" THEN {"u2", NoUser} ELSE IF user = "u2" THEN {NoUser} ELSE {}

AuthChanged ==
    /\ effectRan
    /\ user' \in LaterUsers
    /\ session' = user'
    /\ UNCHANGED <<path, stateFrom, authLoading, signingOut, loginCall, posts, postRequest,
                   editPage>>
    /\ UNCHANGED <<mutVars, asm, siteVars, inserts, db, comment_likes, effectRan, comments,
                   commentsLoading, commentPage, hasMoreComments, likedCommentIds,
                   commentSubmit, replySubmit, toast, loads>>

\* lines 317-326 and 344, behind the like button of lines 563-572: up to the
\* delete or the insert of the comment_likes row
handleToggleLike ==
    /\ inserts < MaxInserts
    /\ inserts' = inserts + 1
    /\ FreeWrites # {}
    /\ \E c \in DisplayedRows :
        /\ CommentBlock(c).likeButton
        /\ writes' = [writes EXCEPT ![FreeWrite] =
                        [IdleWrite EXCEPT !.pc = "sent", !.kind = "like", !.commentId = c.id,
                                          !.user = user, !.liked = c.id \in likedCommentIds]]
    /\ UNCHANGED <<replyToId, editCommentId, appVars, asm, siteVars, db, comment_likes, user, effectRan, comments, commentsLoading,
                   commentPage, hasMoreComments, likedCommentIds, commentSubmit, replySubmit,
                   toast, loads>>

\* lines 364-367, behind the edit button of lines 589-597
handleStartEdit ==
    /\ \E c \in DisplayedRows :
        /\ CommentBlock(c).editButton
        /\ editCommentId' = c.id
    /\ UNCHANGED <<pageVars, replyToId, writes, appVars, asm, siteVars>>

\* editSubmitting: a handleSaveEdit call has not reached its finally block
editSubmitting == \E w \in WriteSlots : writes[w].kind = "edit" /\ writes[w].pc \in {"sent", "resp"}

\* lines 369-377, behind the save button of the edit form (line 543): up to
\* the update; without a user, user!.id throws and the catch block runs
handleSaveEdit ==
    /\ inserts < MaxInserts
    /\ inserts' = inserts + 1
    /\ \E c \in DisplayedRows : CommentBlock(c).isEditing
    /\ ~editSubmitting
    /\ FreeWrites # {}
    /\ IF user = NoUser
       THEN /\ toast' = "editFailed"
            /\ writes' = [writes EXCEPT ![FreeWrite] = DoneWrite]
       ELSE /\ writes' = [writes EXCEPT ![FreeWrite] =
                            [IdleWrite EXCEPT !.pc = "sent", !.kind = "edit",
                                              !.commentId = editCommentId, !.user = user]]
            /\ UNCHANGED toast
    /\ UNCHANGED <<replyToId, editCommentId, appVars, asm, siteVars, db, comment_likes, user,
                   effectRan, comments, commentsLoading, commentPage, hasMoreComments,
                   likedCommentIds, commentSubmit, replySubmit, loads>>

\* lines 391-398, behind the delete button of lines 598-604, confirmed: up
\* to the update
handleDeleteComment ==
    /\ inserts < MaxInserts
    /\ inserts' = inserts + 1
    /\ FreeWrites # {}
    /\ \E c \in DisplayedRows :
        /\ CommentBlock(c).deleteButton
        /\ writes' = [writes EXCEPT ![FreeWrite] =
                        [IdleWrite EXCEPT !.pc = "sent", !.kind = "delete",
                                          !.commentId = c.id, !.user = user]]
    /\ UNCHANGED <<replyToId, editCommentId, appVars, asm, siteVars, db, comment_likes, user, effectRan, comments, commentsLoading,
                   commentPage, hasMoreComments, likedCommentIds, commentSubmit, replySubmit,
                   toast, loads>>

\* updated with the user_id filter left out: eq('id', ...) only
updated_AnyAuthor(rows, w) ==
    {IF r.id = w.commentId
     THEN IF w.kind = "edit" THEN [r EXCEPT !.content = "edited"]
          ELSE [r EXCEPT !.deleted_at = LastTime + 1]
     ELSE r : r \in rows}

\* the update of lines 373-377 or 394-398 as the backend runs it, on the
\* rows that match both eq filters
updated(rows, w) ==
    {IF r.id = w.commentId /\ r.user_id = w.user
     THEN IF w.kind = "edit" THEN [r EXCEPT !.content = "edited"]
          ELSE [r EXCEPT !.deleted_at = LastTime + 1]
     ELSE r : r \in rows}

\* the backend runs the request of the call of slot w, or rejects it: the
\* delete of lines 322-326, the insert of line 344, or an update
WriteServed(w) ==
    /\ writes[w].pc = "sent"
    /\ \E ok \in BOOLEAN :
        /\ writes' = [writes EXCEPT ![w].pc = "resp", ![w].ok = ok]
        /\ comment_likes' =
            IF ok /\ writes[w].kind = "like"
            THEN IF writes[w].liked
                 THEN comment_likes \ {<<writes[w].commentId, writes[w].user>>}
                 ELSE comment_likes \cup {<<writes[w].commentId, writes[w].user>>}
            ELSE comment_likes
        /\ db' = IF ok /\ writes[w].kind \in {"edit", "delete"} THEN updated(db, writes[w])
                 ELSE db
    /\ UNCHANGED <<replyToId, editCommentId, appVars, asm, siteVars, inserts, user, effectRan, comments,
                   commentsLoading, commentPage, hasMoreComments, likedCommentIds,
                   commentSubmit, replySubmit, toast, loads>>

\* patched without the floor of Math.max(0, ...)
patched_NoFloor(c, i, liked) ==
    IF c.id = i
    THEN [c EXCEPT !.likes_count = IF liked THEN @ - 1 ELSE @ + 1]
    ELSE c

\* lines 334 and 338, 348 and 352: the likes_count of the item of identifier
\* i, lowered (floored at zero) or raised by one
patched(c, i, liked) ==
    IF c.id = i
    THEN [c EXCEPT !.likes_count = IF liked THEN (IF @ - 1 < 0 THEN 0 ELSE @ - 1) ELSE @ + 1]
    ELSE c

\* lines 332-342, 346-356: a group of identifier i is patched itself, any
\* other group has its replies patched
patchedGroups(groups, i, liked) ==
    [k \in 1..Len(groups) |->
        IF groups[k].id = i THEN patched(groups[k], i, liked)
        ELSE [groups[k] EXCEPT !.replies =
                [m \in 1..Len(groups[k].replies) |-> patched(groups[k].replies[m], i, liked)]]]

\* lines 327-342, 345-356: handleToggleLike resumes; the answer's error is
\* not looked at
LikeResolved(w) ==
    /\ writes[w].pc = "resp" /\ writes[w].kind = "like"
    /\ likedCommentIds' = IF writes[w].liked THEN likedCommentIds \ {writes[w].commentId}
                          ELSE likedCommentIds \cup {writes[w].commentId}
    /\ comments' = patchedGroups(comments, writes[w].commentId, writes[w].liked)
    /\ writes' = [writes EXCEPT ![w] = DoneWrite]
    /\ UNCHANGED <<replyToId, editCommentId, appVars, asm, siteVars, inserts, db, comment_likes, user,
                   effectRan, commentsLoading, commentPage, hasMoreComments, commentSubmit,
                   replySubmit, toast, loads>>

\* lines 378-388: handleSaveEdit resumes
EditResolved(w) ==
    /\ writes[w].pc = "resp" /\ writes[w].kind = "edit"
    /\ IF writes[w].ok
       THEN /\ editCommentId' = NULL
            /\ toast' = "editDone"
            /\ reloaded
       ELSE /\ toast' = "editFailed"
            /\ UNCHANGED <<editCommentId, commentsLoading, loads>>
    /\ writes' = [writes EXCEPT ![w] = DoneWrite]
    /\ UNCHANGED <<replyToId, appVars, asm, siteVars, inserts, db, comment_likes, user, effectRan,
                   comments, commentPage, hasMoreComments, likedCommentIds, commentSubmit,
                   replySubmit>>

\* DeleteResolved marking the displayed item deleted in place instead of
\* calling fetchComments
DeleteResolved_PatchInPlace(w) ==
    /\ writes[w].pc = "resp" /\ writes[w].kind = "delete"
    /\ toast' = IF writes[w].ok THEN "deleteDone" ELSE "deleteFailed"
    /\ comments' =
        IF writes[w].ok
        THEN [k \in 1..Len(comments) |->
                IF comments[k].id = writes[w].commentId
                THEN [comments[k] EXCEPT !.deleted_at = LastTime] ELSE comments[k]]
        ELSE comments
    /\ writes' = [writes EXCEPT ![w] = DoneWrite]
    /\ UNCHANGED <<replyToId, editCommentId, appVars, asm, siteVars, inserts, db, comment_likes, user,
                   effectRan, commentsLoading, commentPage, hasMoreComments, likedCommentIds,
                   commentSubmit, replySubmit, loads>>

\* lines 399-405: handleDeleteComment resumes
DeleteResolved(w) ==
    /\ writes[w].pc = "resp" /\ writes[w].kind = "delete"
    /\ IF writes[w].ok
       THEN /\ toast' = "deleteDone"
            /\ reloaded
       ELSE /\ toast' = "deleteFailed"
            /\ UNCHANGED <<commentsLoading, loads>>
    /\ writes' = [writes EXCEPT ![w] = DoneWrite]
    /\ UNCHANGED <<replyToId, editCommentId, appVars, asm, siteVars, inserts, db, comment_likes, user,
                   effectRan, comments, commentPage, hasMoreComments, likedCommentIds,
                   commentSubmit, replySubmit>>

\* a post with comment 1 (liked by u1), its reply 2 (liked by u1, its
\* likes_count at zero) and the soft-deleted comment 3
Discussion ==
    {[CommentRow(1, NULL, 0, "u1") EXCEPT !.likes_count = 1],
     CommentRow(2, 1, 1, "u2"),
     [CommentRow(3, NULL, 2, "u2") EXCEPT !.deleted_at = 2]}

InitMut ==
    /\ asm = AsmIdle
    /\ db = Discussion
    /\ inserts = 0
    /\ comment_likes = {<<1, "u1">>, <<2, "u1">>}
    /\ user \in UserIds
    /\ effectRan = FALSE
    /\ comments = <<>>
    /\ commentsLoading = FALSE
    /\ commentPage = 0
    /\ hasMoreComments = TRUE
    /\ likedCommentIds = {}
    /\ commentSubmit = IdleSubmit
    /\ replySubmit = IdleSubmit
    /\ toast = "none"
    /\ loads = [s \in Slots |-> IdleLoad]
    /\ replyToId = NULL
    /\ editCommentId = NULL
    /\ writes = [w \in WriteSlots |-> IdleWrite]
    /\ AtDetailPage
    /\ SiteIdle

\* the page with its comment list fully shown: the load-more button of
\* lines 823-833 is not pressed
NextMut ==
    \/ InitialLoad
    \/ handleSubmitComment
    \/ CommentInsertServed
    \/ CommentInsertResolved
    \/ handleSubmitReply
    \/ ReplyInsertServed
    \/ ReplyInsertResolved
    \/ \E s \in Slots : TopQueryServed(s)
    \/ \E s \in Slots : TopQueryResolved(s)
    \/ \E s \in Slots : RepliesFetched(s)
    \/ \E s \in Slots : NestedFetched(s)
    \/ \E s \in Slots : ProfilesFetched(s)
    \/ \E s \in Slots : LikesQueryServed(s)
    \/ \E s \in Slots : LikesResolved(s)
    \/ AuthChanged
    \/ openReplyInput
    \/ handleToggleLike
    \/ handleStartEdit
    \/ handleSaveEdit
    \/ handleDeleteComment
    \/ \E w \in WriteSlots : WriteServed(w)
    \/ \E w \in WriteSlots : LikeResolved(w)
    \/ \E w \in WriteSlots : EditResolved(w)
    \/ \E w \in WriteSlots : DeleteResolved(w)

SpecMut == InitMut /\ [][NextMut]_vars

\* --------------------------------- App.tsx: the routes and ProtectedRoute
\* lines 44-77: the route patterns whose element is wrapped in ProtectedRoute
Protected == {"/write", "/edit/:id", "/mypage", "/mypage/edit"}

\* ProtectedRoute rendering its children before the auth state has loaded
ProtectedRoute_ChildrenWhileLoading(p, u, l) ==
    IF p.name \notin Protected THEN "page"
    ELSE IF ~l /\ u = NoUser THEN "redirect"
    ELSE "page"

\* lines 15-29 and 40-78: what the route of location p renders when useAuth()
\* gives user u and loading l: its page, the loading text, or <Navigate>
ProtectedRoute(p, u, l) ==
    IF p.name \notin Protected THEN "page"
    ELSE IF l THEN "loading"
    ELSE IF u = NoUser THEN "redirect"
    ELSE "page"

Rendered == ProtectedRoute(path, user, authLoading)

\* a <Navigate> element is rendered: its effect runs in the same commit,
\* before any event or answer is handled
RedirectPending == Rendered = "redirect"

\* EditPage, lines 40-58, once location p is shown to user u: it is mounted
\* when the route renders it, its effect calls fetchPost when it mounts and
\* when user changes, and it is unmounted otherwise
editPageAt(p, u, l) ==
    IF p.name = "/edit/:id" /\ ProtectedRoute(p, u, l) = "page"
    THEN IF editPage.mounted /\ path = p
         THEN IF u = user THEN editPage
              ELSE [editPage EXCEPT !.fetches = @ \cup {u}]
         ELSE [MountedEdit EXCEPT !.fetches = {u}]
    ELSE UnmountedEdit

\* react-router shows location p with location.state.from = f
shown(p, f) ==
    /\ path' = p
    /\ stateFrom' = f
    /\ editPage' = editPageAt(p, user, authLoading)

\* App.tsx lines 23-26: <Navigate to="/login" state={{ from }} replace />
ProtectedRedirect ==
    /\ RedirectPending
    /\ shown(Route("/login", NULL), path)
    /\ UNCHANGED <<authLoading, session, signingOut, loginCall, posts, postRequest, user,
                   pageRest, mutVars, asm, siteVars>>

\* the visitor follows a link or enters an address, or a page calls
\* navigate without state (Navigation lines 98-237 among others)
NavigateTo(p) ==
    /\ ~RedirectPending
    /\ p # path
    /\ shown(p, NoPath)
    /\ UNCHANGED <<authLoading, session, signingOut, loginCall, posts, postRequest, user,
                   pageRest, mutVars, asm, siteVars>>

\* DetailPage lines 419-423: the like button of the post, without a user
goToLogin ==
    /\ path.name = "/post/:id"
    /\ user = NoUser
    /\ shown(Route("/login", NULL), path)
    /\ UNCHANGED <<authLoading, session, signingOut, loginCall, posts, postRequest, user,
                   pageRest, mutVars, asm, siteVars>>

\* the auth context (useAuth, App.tsx line 16) reports the session of the
\* backend: loading ends and user becomes the session's user
AuthReported ==
    /\ ~RedirectPending
    /\ authLoading \/ user # session
    /\ authLoading' = FALSE
    /\ user' = session
    /\ editPage' = editPageAt(path, session, FALSE)
    /\ UNCHANGED <<path, stateFrom, session, signingOut, loginCall, posts, postRequest,
                   pageRest, mutVars, asm, siteVars>>

\* LoginPage lines 26-40: the form is submitted with the credentials of u,
\* up to signInWithPassword
LoginSubmit(u) ==
    /\ path.name = "/login"
    /\ loginCall.pc \in {"idle", "done"}
    /\ loginCall' = [IdleLogin EXCEPT !.pc = "sent", !.from = stateFrom, !.user = u]
    /\ UNCHANGED <<path, stateFrom, authLoading, session, signingOut, posts, postRequest,
                   editPage, user, pageRest, mutVars, asm, siteVars>>

\* the backend accepts the credentials and opens the session, or refuses
LoginServed ==
    /\ ~RedirectPending
    /\ loginCall.pc = "sent"
    /\ \E ok \in BOOLEAN :
        /\ loginCall' = [loginCall EXCEPT !.pc = "resp", !.ok = ok]
        /\ session' = IF ok THEN loginCall.user ELSE session
    /\ UNCHANGED <<path, stateFrom, authLoading, signingOut, posts, postRequest, editPage,
                   user, pageRest, mutVars, asm, siteVars>>

\* LoginPage lines 42-61: handleSubmit resumes; on success it navigates to
\* state?.from || '/'
LoginResolved ==
    /\ ~RedirectPending
    /\ loginCall.pc = "resp"
    /\ IF loginCall.ok
       THEN shown(IF loginCall.from = NoPath THEN Route("/", NULL) ELSE loginCall.from,
                  NoPath)
       ELSE UNCHANGED <<path, stateFrom, editPage>>
    /\ loginCall' = [loginCall EXCEPT !.pc = "done"]
    /\ UNCHANGED <<authLoading, session, signingOut, posts, postRequest, user, pageRest,
                   mutVars, asm, siteVars>>

\* Navigation lines 30-31: the sign-out button, shown to a user on every
\* page but /login and /signup (App.tsx lines 33 and 37), up to signOut()
handleSignOut ==
    /\ ~RedirectPending
    /\ path.name \notin {"/login", "/signup"}
    /\ user # NoUser
    /\ ~signingOut
    /\ signingOut' = TRUE
    /\ session' = NoUser
    /\ UNCHANGED <<path, stateFrom, authLoading, loginCall, posts, postRequest, editPage,
                   user, pageRest, mutVars, asm, siteVars>>

\* Navigation line 32: handleSignOut resumes
SignOutResolved ==
    /\ ~RedirectPending
    /\ signingOut
    /\ signingOut' = FALSE
    /\ shown(Route("/", NULL), NoPath)
    /\ UNCHANGED <<authLoading, session, loginCall, posts, postRequest, user, pageRest,
                   mutVars, asm, siteVars>>

\* DetailPage is not mounted: its state is as its useState calls leave it
NoDetailPage ==
    /\ asm = AsmIdle
    /\ db = NoComments
    /\ inserts = 0
    /\ comment_likes = {}
    /\ effectRan = FALSE
    /\ comments = <<>>
    /\ commentsLoading = FALSE
    /\ commentPage = 0
    /\ hasMoreComments = TRUE
    /\ likedCommentIds = {}
    /\ commentSubmit = IdleSubmit
    /\ replySubmit = IdleSubmit
    /\ toast = "none"
    /\ loads = [s \in Slots |-> IdleLoad]
    /\ replyToId = NULL
    /\ editCommentId = NULL
    /\ writes = [w \in WriteSlots |-> IdleWrite]

\* the app is opened at any address: the auth state is loading and the
\* backend holds a session or none
InitApp ==
    /\ user = NoUser
    /\ NoDetailPage
    /\ path \in Paths
    /\ stateFrom = NoPath
    /\ authLoading = TRUE
    /\ session \in UserIds \cup {NoUser}
    /\ signingOut = FALSE
    /\ loginCall = IdleLogin
    /\ posts = Blog
    /\ postRequest = NoRequest
    /\ editPage = UnmountedEdit
    /\ SiteIdle

NextApp ==
    \/ ProtectedRedirect
    \/ \E p \in Paths : NavigateTo(p)
    \/ goToLogin
    \/ AuthReported
    \/ \E u \in UserIds : LoginSubmit(u)
    \/ LoginServed
    \/ LoginResolved
    \/ handleSignOut
    \/ SignOutResolved

SpecApp == InitApp /\ [][NextApp]_vars

\* ------------------------- update and delete requests on public.posts
\* EditPage lines 170-232: the edit form is rendered
EditFormShown ==
    editPage.mounted /\ ~editPage.loading /\ editPage.post # NULL /\ ~editPage.forbidden

\* EditPage lines 61-97: the fetchPost call made for user u returns; the
\* select of the row of the :id parameter fails, finds no row, or finds one
FetchPostResolved(u) ==
    /\ editPage.mounted
    /\ u \in editPage.fetches
    /\ \E ok \in BOOLEAN :
        LET found == {r \in posts : r.id = path.id}
            row == CHOOSE r \in found : TRUE
        IN  editPage' =
                IF ~ok \/ found = {}
                THEN [editPage EXCEPT !.fetches = @ \ {u}, !.post = NULL, !.loading = FALSE]
                ELSE IF row.user_id # u
                THEN [editPage EXCEPT !.fetches = @ \ {u}, !.post = row.id,
                                      !.forbidden = TRUE, !.loading = FALSE]
                ELSE [editPage EXCEPT !.fetches = @ \ {u}, !.post = row.id,
                                      !.loading = FALSE]
    /\ UNCHANGED <<path, stateFrom, authLoading, session, signingOut, loginCall, posts,
                   postRequest, user, pageRest, mutVars, asm, siteVars>>

\* EditPage lines 128-150: the form is submitted, up to the update
EditSubmit ==
    /\ EditFormShown
    /\ user # NoUser
    /\ postRequest.pc = "idle"
    /\ postRequest' = [NoRequest EXCEPT !.pc = "sent", !.op = "update", !.page = "EditPage",
                                        !.id = path.id, !.filtered = TRUE,
                                        !.user_id = user, !.by = user]
    /\ UNCHANGED <<path, stateFrom, authLoading, session, signingOut, loginCall, posts,
                   editPage, user, pageRest, mutVars, asm, siteVars>>

\* DetailPage lines 408-411, behind the delete button that is rendered when
\* isAuthor (lines 471, 654-670): up to the delete, which has no user_id
\* filter
handleDeletePost ==
    /\ path.name = "/post/:id"
    /\ \E r \in posts : r.id = path.id /\ user = r.user_id
    /\ postRequest.pc = "idle"
    /\ postRequest' = [NoRequest EXCEPT !.pc = "sent", !.op = "delete",
                                        !.page = "DetailPage", !.id = path.id, !.by = user]
    /\ UNCHANGED <<path, stateFrom, authLoading, session, signingOut, loginCall, posts,
                   editPage, user, pageRest, mutVars, asm, siteVars>>

\* MyPage lines 219-224, behind the delete button of a post of the user's
\* own list (fetchMyPosts, lines 100-106): up to the delete
MyPageDeletePost(i) ==
    /\ path.name = "/mypage" /\ Rendered = "page"
    /\ \E r \in posts : r.id = i /\ r.user_id = user
    /\ postRequest.pc = "idle"
    /\ postRequest' = [NoRequest EXCEPT !.pc = "sent", !.op = "delete", !.page = "MyPage",
                                        !.id = i, !.filtered = TRUE, !.user_id = user,
                                        !.by = user]
    /\ UNCHANGED <<path, stateFrom, authLoading, session, signingOut, loginCall, posts,
                   editPage, user, pageRest, mutVars, asm, siteVars>>

\* the rows of public.posts after the backend has run request r on the rows
\* that match its eq filters
applied(rows, r) ==
    LET hit(x) == x.id = r.id /\ (r.filtered => x.user_id = r.user_id)
    IN  IF r.op = "delete" THEN {x \in rows : ~hit(x)}
        ELSE {IF hit(x) THEN [x EXCEPT !.title = "edited"] ELSE x : x \in rows}

\* the backend runs the request, or rejects it
PostRequestServed ==
    /\ postRequest.pc = "sent"
    /\ \E ok \in BOOLEAN :
        /\ postRequest' = [postRequest EXCEPT !.pc = "resp", !.ok = ok]
        /\ posts' = IF ok THEN applied(posts, postRequest) ELSE posts
    /\ UNCHANGED <<path, stateFrom, authLoading, session, signingOut, loginCall, editPage,
                   user, pageRest, mutVars, asm, siteVars>>

\* the handler resumes: EditPage lines 152-168 (navigate to the post),
\* DetailPage lines 412-416 (navigate to /), MyPage lines 225-231
PostRequestResolved ==
    /\ postRequest.pc = "resp"
    /\ IF postRequest.ok /\ postRequest.page = "EditPage"
       THEN shown(Route("/post/:id", postRequest.id), NoPath)
       ELSE IF postRequest.ok /\ postRequest.page = "DetailPage"
       THEN shown(Route("/", NULL), NoPath)
       ELSE UNCHANGED <<path, stateFrom, editPage>>
    /\ postRequest' = NoRequest
    /\ UNCHANGED <<authLoading, session, signingOut, loginCall, posts, user, pageRest,
                   mutVars, asm, siteVars>>

\* a signed-in user on the main page
InitPost ==
    /\ user \in UserIds
    /\ NoDetailPage
    /\ path = Route("/", NULL)
    /\ stateFrom = NoPath
    /\ authLoading = FALSE
    /\ session = user
    /\ signingOut = FALSE
    /\ loginCall = IdleLogin
    /\ posts = Blog
    /\ postRequest = NoRequest
    /\ editPage = UnmountedEdit
    /\ SiteIdle

NextPost ==
    \/ \E p \in Paths : NavigateTo(p)
    \/ \E u \in UserIds : FetchPostResolved(u)
    \/ EditSubmit
    \/ handleDeletePost
    \/ \E i \in PostIds : MyPageDeletePost(i)
    \/ PostRequestServed
    \/ PostRequestResolved

SpecPost == InitPost /\ [][NextPost]_vars

\* ------------------------------------ lib/searchUtils: recent searches
\* a string is the sequence of its characters
Chars == {" ", "a", "b"}
RECURSIVE StringsOf(_)
StringsOf(n) ==
    IF n = 0 THEN {<<>>}
    ELSE StringsOf(n - 1) \cup {Append(q, c) : q \in {x \in StringsOf(n - 1) : Len(x) = n - 1},
                                                c \in Chars}
Queries == StringsOf(MaxQueryLen)

\* String.prototype.trim
RECURSIVE trimStart(_)
trimStart(q) == IF q # <<>> /\ Head(q) = " " THEN trimStart(Tail(q)) ELSE q
RECURSIVE trimEnd(_)
trimEnd(q) ==
    IF q # <<>> /\ q[Len(q)] = " " THEN trimEnd(SubSeq(q, 1, Len(q) - 1)) ELSE q
trim(q) == trimEnd(trimStart(q))

\* Array.prototype.filter((s) => s !== term)
RECURSIVE without(_, _)
without(list, term) ==
    IF list = <<>> THEN <<>>
    ELSE IF Head(list) = term THEN without(Tail(list), term)
    ELSE <<Head(list)>> \o without(Tail(list), term)

\* Array.prototype.slice(0, n)
slice(list, n) == SubSeq(list, 1, IF Len(list) < n THEN Len(list) ELSE n)

\* lines 7-17: the stored array, cut to MAX_RECENT (the item holds only what
\* addRecentSearch and removeRecentSearch wrote: an array of strings)
getRecentSearches == slice(recent, MAX_RECENT)

\* addRecentSearch without the filter that drops the earlier occurrence
addRecentSearch_NoDedupe(query) ==
    /\ recent' = (LET trimmed == trim(query)
                  IN  IF trimmed = <<>> THEN recent
                      ELSE slice(<<trimmed>> \o getRecentSearches, MAX_RECENT))
    /\ UNCHANGED <<asm, pageVars, mutVars, appVars, likeVars, tagVars, feedVars>>

\* lines 20-27
addRecentSearch(query) ==
    /\ recent' = (LET trimmed == trim(query)
                  IN  IF trimmed = <<>> THEN recent
                      ELSE slice(<<trimmed>> \o without(getRecentSearches, trimmed),
                                 MAX_RECENT))
    /\ UNCHANGED <<asm, pageVars, mutVars, appVars, likeVars, tagVars, feedVars>>

\* lines 30-34
removeRecentSearch(term) ==
    /\ recent' = without(getRecentSearches, term)
    /\ UNCHANGED <<asm, pageVars, mutVars, appVars, likeVars, tagVars, feedVars>>

\* a visitor in front of the search bar of Navigation, with empty storage
InitSearch ==
    /\ asm = AsmIdle
    /\ InitPage
    /\ user = NoUser
    /\ db = NoComments

NextSearch ==
    \/ \E q \in Queries : addRecentSearch(q)
    \/ \E t \in Queries : removeRecentSearch(t)

SpecSearch == InitSearch /\ [][NextSearch]_vars

\* ------------------------- public.likes: unique key and count trigger
\* the trigger function without its DELETE branch
update_posts_likes_count_InsertOnly(TG_OP, count) ==
    IF TG_OP = "INSERT" THEN count + 1 ELSE count

\* part_006 lines 8-18: the new posts.likes_count of the post of the row
update_posts_likes_count(TG_OP, count) ==
    IF TG_OP = "INSERT" THEN count + 1
    ELSE IF count - 1 < 0 THEN 0 ELSE count - 1

\* the trigger run once per row, for n rows (lines 21-23: FOR EACH ROW)
RECURSIVE forEachRow(_, _, _)
forEachRow(TG_OP, count, n) ==
    IF n = 0 THEN count
    ELSE forEachRow(TG_OP, update_posts_likes_count(TG_OP, count), n - 1)

\* INSERT INTO likes (post_id, user_id): refused by the unique key of lines
\* 2-5 when the pair has a row, else the row is added and the trigger runs
LikeInsert(p, u) ==
    /\ IF likes[<<p, u>>] >= 1
       THEN UNCHANGED <<likes, likes_count>>
       ELSE /\ likes' = [likes EXCEPT ![<<p, u>>] = @ + 1]
            /\ likes_count' = [likes_count EXCEPT ![p] = forEachRow("INSERT", @, 1)]
    /\ UNCHANGED <<asm, pageVars, mutVars, appVars, searchVars, tagVars, feedVars>>

\* DELETE FROM likes WHERE post_id = p AND user_id = u: every matching row
\* goes and the trigger runs for each
LikeDelete(p, u) ==
    /\ likes' = [likes EXCEPT ![<<p, u>>] = 0]
    /\ likes_count' = [likes_count EXCEPT ![p] = forEachRow("DELETE", @, likes[<<p, u>>])]
    /\ UNCHANGED <<asm, pageVars, mutVars, appVars, searchVars, tagVars, feedVars>>

\* no like yet: every count is zero
InitLikes ==
    /\ asm = AsmIdle
    /\ InitPage
    /\ user = NoUser
    /\ db = NoComments

NextLikes ==
    \/ \E p \in PostIds, u \in Likers : LikeInsert(p, u)
    \/ \E p \in PostIds, u \in Likers : LikeDelete(p, u)

SpecLikes == InitLikes /\ [][NextLikes]_vars

\* ------------------------------------------- the tag field of the post forms
\* WritePage lines 56-76 and EditPage lines 99-116 are the same two handlers.
\* the limit of handleAddTag (tags.length >= 5) and of the field (disabled)
TagLimit == 5

\* what the author types or pastes into the field
TagTexts == {<<>>, <<" ">>, <<"a">>, <<" ", "a">>, <<"b">>, <<"c">>, <<"d">>, <<"e">>,
             <<"f", " ">>}

\* onChange={(e) => setTagInput(e.target.value)} of the field, which is
\* disabled={loading || tags.length >= 5}
setTagInput(value) ==
    /\ Len(tags) < TagLimit
    /\ tagInput' = value
    /\ UNCHANGED <<asm, pageVars, mutVars, appVars, searchVars, likeVars, feedVars, tags>>

\* handleAddTag without the tags.includes(trimmedTag) check
handleAddTag_NoDedupe ==
    /\ LET trimmedTag == trim(tagInput)
       IN  IF trimmedTag = <<>> THEN UNCHANGED tagVars
           ELSE IF Len(tags) >= TagLimit THEN UNCHANGED tagVars
           ELSE tags' = Append(tags, trimmedTag) /\ tagInput' = <<>>
    /\ UNCHANGED <<asm, pageVars, mutVars, appVars, searchVars, likeVars, feedVars>>

\* WritePage lines 56-72 (EditPage lines 99-112), run by Enter, comma or
\* space in the field
handleAddTag ==
    /\ LET trimmedTag == trim(tagInput)
       IN  IF trimmedTag = <<>> THEN UNCHANGED tagVars
           ELSE IF Len(tags) >= TagLimit THEN UNCHANGED tagVars
           ELSE IF \E i \in 1..Len(tags) : tags[i] = trimmedTag THEN UNCHANGED tagVars
           ELSE tags' = Append(tags, trimmedTag) /\ tagInput' = <<>>
    /\ UNCHANGED <<asm, pageVars, mutVars, appVars, searchVars, likeVars, feedVars>>

\* WritePage lines 74-76 (EditPage lines 114-116), the button of a shown tag
handleRemoveTag(tagToRemove) ==
    /\ \E i \in 1..Len(tags) : tags[i] = tagToRemove
    /\ tags' = without(tags, tagToRemove)
    /\ UNCHANGED <<asm, pageVars, mutVars, appVars, searchVars, likeVars, feedVars, tagInput>>

\* an author in front of the empty form
InitTags ==
    /\ asm = AsmIdle
    /\ InitPage
    /\ user = NoUser
    /\ db = NoComments

NextTags ==
    \/ \E v \in TagTexts : setTagInput(v)
    \/ handleAddTag
    \/ \E t \in {trim(v) : v \in TagTexts} : handleRemoveTag(t)

SpecTags == InitTags /\ [][NextTags]_vars

\* ------------------------------------------------- MainPage: the feed
SortOptions == {"latest", "popular"}

\* the public posts of the table: the newest is not the most liked
FeedRows ==
    {[id |-> 1, created_at |-> 1, likes_count |-> 2],
     [id |-> 2, created_at |-> 2, likes_count |-> 0],
     [id |-> 3, created_at |-> 3, likes_count |-> 1]}

\* lines 93-97: order('created_at' | 'likes_count', { ascending: false })
orderKey(r, sort) == IF sort = "latest" THEN r.created_at ELSE r.likes_count
ordered(sort) ==
    CHOOSE s \in [1..Cardinality(FeedRows) -> FeedRows] :
        /\ \A i, j \in 1..Cardinality(FeedRows) : i # j => s[i] # s[j]
        /\ \A i \in 1..(Cardinality(FeedRows) - 1) :
                orderKey(s[i], sort) >= orderKey(s[i + 1], sort)

FreeFetches == {c \in FetchSlots : fetchCalls[c].pc = "idle"}
FreeFetch == CHOOSE c \in FreeFetches : \A o \in FreeFetches : c <= o

\* lines 79-99: fetchPosts(pageNum, sort, append) up to its first await
fetching(pageNum, sort, append) ==
    [fetchCalls EXCEPT ![FreeFetch] =
        [IdleFetch EXCEPT !.pc = "query", !.pageNum = pageNum, !.sort = sort,
                          !.append = append]]

\* lines 162-167: the effect of [sortBy], at mount and after a change
sortEffect(sort) ==
    /\ FreeFetches # {}
    /\ mainPage' = [mainPage EXCEPT !.mounted = TRUE, !.sortBy = sort, !.page = 0,
                                    !.posts = <<>>, !.hasMore = TRUE, !.loading = TRUE]
    /\ fetchCalls' = fetching(0, sort, FALSE)
    /\ UNCHANGED <<asm, pageVars, mutVars, appVars, searchVars, likeVars, tagVars>>

\* the page mounts: the effect of [sortBy] runs with the initial option
MainPageMounted ==
    /\ ~mainPage.mounted
    /\ sortEffect(mainPage.sortBy)

\* lines 179-181 and 162-167, behind the buttons of lines 216 and 224: the
\* option changes and, in the same commit, the effect of [sortBy] runs
handleSortChange(newSort) ==
    /\ mainPage.mounted
    /\ newSort # mainPage.sortBy
    /\ sortEffect(newSort)

\* lines 144-149 and 170-176: the sentinel under the list comes into view,
\* the counter goes up and the effect of [page] fetches that window
handleObserver ==
    /\ mainPage.mounted
    /\ mainPage.hasMore /\ ~mainPage.loadingMore
    /\ mainPage.page < MaxFeedPage
    /\ FreeFetches # {}
    /\ mainPage' = [mainPage EXCEPT !.page = @ + 1, !.loadingMore = TRUE]
    /\ fetchCalls' = fetching(mainPage.page + 1, mainPage.sortBy, TRUE)
    /\ UNCHANGED <<asm, pageVars, mutVars, appVars, searchVars, likeVars, tagVars>>

\* lines 87-99: the backend answers the query of the call of slot c
PostsQueryServed(c) ==
    /\ fetchCalls[c].pc = "query"
    /\ \E ok \in BOOLEAN :
        fetchCalls' = [fetchCalls EXCEPT
            ![c].pc = "queryResp",
            ![c].ok = ok,
            ![c].postsData =
                IF ok THEN rangeOf(ordered(fetchCalls[c].sort),
                                   fetchCalls[c].pageNum * POSTS_PER_PAGE,
                                   (fetchCalls[c].pageNum + 1) * POSTS_PER_PAGE - 1)
                ELSE <<>>]
    /\ UNCHANGED <<asm, pageVars, mutVars, appVars, searchVars, likeVars, tagVars, mainPage>>

\* lines 101-111 and 135-140: the call resumes with the answer; an error or
\* an empty window ends it through the finally block
PostsQueryResolved(c) ==
    /\ fetchCalls[c].pc = "queryResp"
    /\ IF ~fetchCalls[c].ok
       THEN /\ mainPage' = [mainPage EXCEPT !.loading = FALSE, !.loadingMore = FALSE]
            /\ fetchCalls' = [fetchCalls EXCEPT ![c] = IdleFetch]
       ELSE IF fetchCalls[c].postsData = <<>>
       THEN /\ mainPage' = [mainPage EXCEPT
                                !.posts = IF fetchCalls[c].append THEN @ ELSE <<>>,
                                !.hasMore = FALSE,
                                !.loading = FALSE, !.loadingMore = FALSE]
            /\ fetchCalls' = [fetchCalls EXCEPT ![c] = IdleFetch]
       ELSE /\ fetchCalls' = [fetchCalls EXCEPT ![c].pc = "profiles"]
            /\ UNCHANGED mainPage
    /\ UNCHANGED <<asm, pageVars, mutVars, appVars, searchVars, likeVars, tagVars>>

\* lines 124-127: the fetched posts with their authors' profiles; sort is
\* the option the call was made with
postsWithProfiles(call, found) ==
    [i \in 1..Len(call.postsData) |->
        [id |-> call.postsData[i].id,
         profiles |-> IF found THEN "profile" ELSE "null",
         sort |-> call.sort]]

\* lines 113-140: the profile query is answered (its error is not looked
\* at), the posts are stored and the finally block runs
PostsStored(c) ==
    /\ fetchCalls[c].pc = "profiles"
    /\ \E found \in BOOLEAN :
        mainPage' = [mainPage EXCEPT
            !.posts = IF fetchCalls[c].append
                      THEN @ \o postsWithProfiles(fetchCalls[c], found)
                      ELSE postsWithProfiles(fetchCalls[c], found),
            !.hasMore = (Len(fetchCalls[c].postsData) = POSTS_PER_PAGE),
            !.loading = FALSE, !.loadingMore = FALSE]
    /\ fetchCalls' = [fetchCalls EXCEPT ![c] = IdleFetch]
    /\ UNCHANGED <<asm, pageVars, mutVars, appVars, searchVars, likeVars, tagVars>>

\* a visitor opens the main page
InitFeed ==
    /\ asm = AsmIdle
    /\ InitPage
    /\ user = NoUser
    /\ db = NoComments

NextFeed ==
    \/ MainPageMounted
    \/ \E newSort \in SortOptions : handleSortChange(newSort)
    \/ handleObserver
    \/ \E c \in FetchSlots : PostsQueryServed(c)
    \/ \E c \in FetchSlots : PostsQueryResolved(c)
    \/ \E c \in FetchSlots : PostsStored(c)

SpecFeed == InitFeed /\ [][NextFeed]_vars

\* ------------------- DetailPage: the checks of the text before a write
\* lines 534, 691, 726, 767: every text field stores
\* e.target.value.slice(0, COMMENT_MAX_LENGTH)
Texts == StringsOf(COMMENT_MAX_LENGTH)

\* a handler returns before its request: at most a notice is shown
refused(notice) ==
    /\ toast' = notice
    /\ UNCHANGED <<mutVars, appVars, asm, siteVars, inserts, db, comment_likes, user, effectRan,
                   comments, commentsLoading, commentPage, hasMoreComments, likedCommentIds,
                   commentSubmit, replySubmit, loads>>

\* handleSubmitComment without the check of the empty text
handleSubmitCommentWith_NoEmptyCheck(commentInput) ==
    /\ effectRan
    /\ commentSubmit.pc = "idle"
    /\ IF user = NoUser THEN refused("loginRequired")
       ELSE LET content == trim(commentInput)
            IN  IF Len(content) > COMMENT_MAX_LENGTH THEN refused("commentTooLong")
                ELSE handleSubmitComment

\* lines 254-276: handleSubmitComment with the text of the comment form
handleSubmitCommentWith(commentInput) ==
    /\ effectRan
    /\ commentSubmit.pc = "idle"
    /\ IF user = NoUser THEN refused("loginRequired")
       ELSE LET content == trim(commentInput)
            IN  IF content = <<>> THEN refused("commentRequired")
                ELSE IF Len(content) > COMMENT_MAX_LENGTH THEN refused("commentTooLong")
                ELSE handleSubmitComment

\* lines 289-303: handleSubmitReply with the text of the open reply form;
\* without a user it returns without a notice
handleSubmitReplyWith(parentId, replyInput) ==
    /\ ReplyFormShown(parentId)
    /\ replySubmit.pc = "idle"
    /\ IF user = NoUser THEN UNCHANGED vars
       ELSE LET content == trim(replyInput)
            IN  IF content = <<>> \/ Len(content) > COMMENT_MAX_LENGTH
                THEN refused("replyLength")
                ELSE handleSubmitReplyTo(parentId)

\* lines 369-377: handleSaveEdit with the text of the edit form; a text that
\* fails the check makes it return without a notice
handleSaveEditWith(editContent) ==
    /\ \E c \in DisplayedRows : CommentBlock(c).isEditing
    /\ ~editSubmitting
    /\ IF trim(editContent) = <<>> \/ Len(editContent) > COMMENT_MAX_LENGTH
       THEN UNCHANGED vars
       ELSE handleSaveEdit

NextInput ==
    \/ InitialLoad
    \/ \E t \in Texts : handleSubmitCommentWith(t)
    \/ CommentInsertServed
    \/ CommentInsertResolved
    \/ openReplyInput
    \/ \E t \in Texts : \E parentId \in DisplayedIds : handleSubmitReplyWith(parentId, t)
    \/ ReplyInsertServed
    \/ ReplyInsertResolved
    \/ handleStartEdit
    \/ \E t \in Texts : handleSaveEditWith(t)
    \/ \E w \in WriteSlots : WriteServed(w)
    \/ \E w \in WriteSlots : EditResolved(w)
    \/ \E s \in Slots : TopQueryServed(s)
    \/ \E s \in Slots : TopQueryResolved(s)
    \/ \E s \in Slots : RepliesFetched(s)
    \/ \E s \in Slots : NestedFetched(s)
    \/ \E s \in Slots : ProfilesFetched(s)
    \/ \E s \in Slots : LikesQueryServed(s)
    \/ \E s \in Slots : LikesResolved(s)
    \/ AuthChanged

SpecInput == InitMut /\ [][NextInput]_vars

\* ------------------------------------------- properties of the assembly
Groups == asm.withReplies
ListIds == Range(MapIds(asm.list))
DirectIds == Range(MapIds(asm.directReplies))
ReplyIdsOf(g) == MapIds(g.replies)
AllReplyIds == Flatten([k \in 1..Len(Groups) |-> ReplyIdsOf(Groups[k])])
IsDirectItem(item) == item.parent.id = NULL

\* C1: every element of directReplies whose parent_id is the id of a comment
\* of list appears exactly once over all groups' reply lists, and it is in
\* the reply list of the group of that parent.
C1_DirectExactlyOnce ==
    asm.pc = "done" =>
        \A i \in 1..Len(asm.directReplies) :
            LET r == asm.directReplies[i] IN
            r.parent_id \in ListIds =>
                /\ Count(r.id, AllReplyIds) = 1
                /\ \E k \in 1..Len(Groups) :
                        /\ Groups[k].id = r.parent_id
                        /\ r.id \in Range(ReplyIdsOf(Groups[k]))

C1_Witness ==
    /\ asm.pc = "done"
    /\ Len(asm.list) >= 2
    /\ \E i \in 1..Len(asm.directReplies) : asm.directReplies[i].parent_id = asm.list[2].id

SupplyRank(item) ==
    IF IsDirectItem(item)
    THEN CHOOSE i \in 1..Len(asm.directReplies) : asm.directReplies[i].id = item.id
    ELSE Len(asm.directReplies)
            + (CHOOSE i \in 1..Len(asm.nestedReplies) : asm.nestedReplies[i].id = item.id)

\* C3 (amended): every reply list is ordered by the creation timestamp in
\* whole milliseconds, descending, and replies of the same millisecond keep
\* the order they were supplied in (direct replies before nested replies).
C3_SortedByMillisStable ==
    asm.pc = "done" =>
        \A k \in 1..Len(Groups) :
            LET rs == Groups[k].replies IN
            \A i \in 1..(Len(rs) - 1) :
                \/ rs[i].created_at \div SubMs > rs[i + 1].created_at \div SubMs
                \/ /\ rs[i].created_at \div SubMs = rs[i + 1].created_at \div SubMs
                   /\ SupplyRank(rs[i]) < SupplyRank(rs[i + 1])

C3_Witness ==
    /\ asm.pc = "done"
    /\ \E k \in 1..Len(Groups) :
        LET rs == Groups[k].replies IN
        /\ Len(rs) = 2
        /\ rs[1].created_at \div SubMs > rs[2].created_at \div SubMs
        /\ SupplyRank(rs[1]) > SupplyRank(rs[2])

PermsOf(s) ==
    IF s = <<>> THEN {<<>>}
    ELSE {[i \in 1..Len(s) |-> s[p[i]]] : p \in Permutations(1..Len(s))}

\* C3 as stated: every reply list is ordered by creation timestamp
\* descending, replies of equal timestamp by identifier, so that supplying
\* directReplies and nestedReplies in another order gives the same lists.
C3_Original ==
    asm.pc = "done" =>
        /\ \A k \in 1..Len(Groups) :
            LET rs == Groups[k].replies IN
            \A i \in 1..(Len(rs) - 1) :
                \/ rs[i].created_at > rs[i + 1].created_at
                \/ /\ rs[i].created_at = rs[i + 1].created_at
                   /\ rs[i].id < rs[i + 1].id
        /\ \A ds \in PermsOf(asm.directReplies) : \A ns \in PermsOf(asm.nestedReplies) :
            LET other == withReplies(asm.list, ds, ns, asm.profilesMap) IN
            \A k \in 1..Len(Groups) : ReplyIdsOf(other[k]) = ReplyIdsOf(Groups[k])

\* C7: the output has exactly one group per element of list, in the order
\* of list, and each group carries the identifier and the columns of its
\* top-level comment.
C7_OneGroupPerTopLevel ==
    asm.pc = "done" =>
        /\ Len(Groups) = Len(asm.list)
        /\ \A k \in 1..Len(Groups) :
            /\ Groups[k].id = asm.list[k].id
            /\ Groups[k].parent_id = asm.list[k].parent_id
            /\ Groups[k].created_at = asm.list[k].created_at
            /\ Groups[k].user_id = asm.list[k].user_id

C7_Witness ==
    /\ asm.pc = "done"
    /\ Len(asm.list) >= 2
    /\ asm.list[1].id > asm.list[2].id
    /\ \E k \in 1..Len(Groups) : Groups[k].replies # <<>>
    /\ \E k \in 1..Len(Groups) : Groups[k].replies = <<>>

\* the supplied replies, and whether the parent chain that starts at
\* identifier i reaches a comment of list within n steps
SuppliedReplies == Range(asm.directReplies) \cup Range(asm.nestedReplies)

RECURSIVE ChainResolves(_, _)
ChainResolves(i, n) ==
    \/ i \in ListIds
    \/ /\ n > 0
       /\ \E r \in SuppliedReplies : r.id = i /\ ChainResolves(r.parent_id, n - 1)

\* C8: in every group each reply item's parent_id is the id of the group's
\* top-level comment or the id of a direct reply in the same reply list; a
\* supplied reply whose parent chain reaches no comment of list is in no group.
C8_ParentsInGroup ==
    asm.pc = "done" =>
        /\ \A k \in 1..Len(Groups) :
            LET rs == Groups[k].replies IN
            \A i \in 1..Len(rs) :
                \/ rs[i].parent_id = Groups[k].id
                \/ \E j \in 1..Len(rs) :
                        rs[j].id = rs[i].parent_id /\ rs[j].parent_id = Groups[k].id
        /\ \A r \in SuppliedReplies :
            ~ChainResolves(r.parent_id, MaxComments) => Count(r.id, AllReplyIds) = 0

C8_Witness ==
    /\ asm.pc = "done"
    /\ Len(asm.list) >= 1
    /\ \E k \in 1..Len(Groups) : \E i \in 1..Len(Groups[k].replies) :
            Groups[k].replies[i].parent_id # Groups[k].id
    /\ Len(AllReplyIds) = 2
    /\ Len(asm.directReplies) + Len(asm.nestedReplies) = 2

\* C9: a nested reply whose parent_id is the id of no element of
\* directReplies is in no group's reply list, and the assembly of such an
\* input completes with one group per top-level comment.
C9_OrphanNestedDropped ==
    \A i \in 1..Len(asm.nestedReplies) :
        LET n == asm.nestedReplies[i] IN
        n.parent_id \notin DirectIds =>
            /\ asm.pc = "input" => ENABLED Assemble
            /\ asm.pc = "done" =>
                /\ Count(n.id, AllReplyIds) = 0
                /\ Len(Groups) = Len(asm.list)

C9_Witness ==
    /\ asm.pc = "done"
    /\ \E i \in 1..Len(asm.nestedReplies) :
        /\ asm.nestedReplies[i].parent_id \notin DirectIds
        /\ asm.nestedReplies[i].parent_id \in ListIds
    /\ \E k \in 1..Len(Groups) : Groups[k].replies # <<>>

\* ------------------------------------------------ properties of the page
\* the row of identifier i, and the top-level comment its parent chain ends at
RowOf(i) == CHOOSE r \in db : r.id = i

RECURSIVE TopAncestor(_)
TopAncestor(i) ==
    IF RowOf(i).parent_id = NULL THEN i ELSE TopAncestor(RowOf(i).parent_id)

\* the call of slot s returns in this step
Returns(s) == loads[s].pc # "idle" /\ loads'[s].pc = "idle"

\* C4: a reply submitted against a displayed comment, direct reply or nested
\* reply is, once the reload that follows its insertion has stored its
\* result with no query failed, in the reply list of the group of its
\* top-level ancestor whenever that group is displayed.
C4_ReplyShownAfterReload ==
    [][\A s \in Slots :
        (Returns(s) /\ loads[s].pc = "likesResp" /\ loads[s].forReply # NULL
            /\ ~loads[s].failed) =>
            LET x == loads[s].forReply IN
            \A k \in 1..Len(comments') :
                comments'[k].id = TopAncestor(x)
                    => x \in Range(MapIds(comments'[k].replies))]_vars

\* the queries of fetchComments that the assembly reads the result of
AssemblyInputs(l) ==
    {"top", "direct", "profiles"} \cup (IF l.directReplies # <<>> THEN {"nested"} ELSE {})

\* C5 (amended): a call of fetchComments holds an assembled tree only after
\* its top-level query, its direct-reply query, its nested-reply query (issued
\* when there is a direct reply) and its profile query have resolved; the
\* like-membership query is issued after the assembly, so it has not resolved
\* when the tree is assembled, and it has resolved when the tree is stored.
C5_AssembledAfterItsInputs ==
    \A s \in Slots :
        /\ loads[s].pc = "likes" =>
                /\ AssemblyInputs(loads[s]) \subseteq loads[s].resolved
                /\ "likes" \notin loads[s].resolved
                /\ Len(loads[s].withReplies) = Len(loads[s].list)
        /\ loads[s].pc = "likesResp" =>
                AssemblyInputs(loads[s]) \cup {"likes"} \subseteq loads[s].resolved
        /\ loads[s].pc \in {"idle", "top", "topResp", "direct", "nested", "profiles"} =>
                loads[s].withReplies = <<>>

C5_Witness ==
    \E s \in Slots :
        /\ loads[s].pc = "likes"
        /\ loads[s].resolved = {"top", "direct", "nested", "profiles"}
        /\ loads[s].nestedReplies # <<>>
        /\ \E k \in 1..Len(loads[s].withReplies) : Len(loads[s].withReplies[k].replies) = 2

\* C5 as stated: whenever a call of fetchComments holds an assembled tree,
\* its top-level, direct-reply, nested-reply, profile and like-membership
\* queries have all resolved.
C5_Original ==
    \A s \in Slots :
        loads[s].withReplies # <<>> =>
            AssemblyInputs(loads[s]) \cup {"likes"} \subseteq loads[s].resolved

\* C6: once a call of fetchComments that was started later has stored its
\* result, the return of a call started earlier leaves the displayed
\* comment list as it is.
C6_SupersededLoadDiscarded ==
    [][\A s \in Slots : (loads[s].stale /\ Returns(s)) => comments' = comments]_vars

\* ------------------------------------- more properties of the assembly
\* C17: the assembly of an empty list completes and gives no group, whatever
\* directReplies and nestedReplies hold.
C17_EmptyListNoGroups ==
    asm.list = <<>> =>
        /\ asm.pc = "input" => ENABLED Assemble
        /\ asm.pc = "done" => Groups = <<>>

C17_Witness ==
    /\ asm.pc = "done"
    /\ asm.list = <<>>
    /\ asm.directReplies # <<>>
    /\ asm.nestedReplies # <<>>
    /\ asm.nestedReplies[1].parent_id = asm.directReplies[1].id

\* the profile the assembly has to attach to a row of author u
ProfileFor(u) == IF u \in DOMAIN asm.profilesMap THEN asm.profilesMap[u] ELSE NoProfile

\* C18: a comment or reply whose author has no entry in profilesMap is
\* emitted where it would be with a profile: the comment as the group at its
\* position of list, the reply in the reply list of its group, each with the
\* null profile; the assembly of such an input completes.
C18_MissingProfileIsNull ==
    /\ asm.pc = "input" => ENABLED Assemble
    /\ asm.pc = "done" =>
        /\ \A k \in 1..Len(asm.list) :
            asm.list[k].user_id \notin DOMAIN asm.profilesMap =>
                /\ k <= Len(Groups)
                /\ Groups[k].id = asm.list[k].id
                /\ Groups[k].profiles = NoProfile
        /\ \A i \in 1..Len(asm.directReplies) :
            LET r == asm.directReplies[i] IN
            (r.user_id \notin DOMAIN asm.profilesMap /\ r.parent_id \in ListIds) =>
                \E k \in 1..Len(Groups) : \E m \in 1..Len(Groups[k].replies) :
                    /\ Groups[k].id = r.parent_id
                    /\ Groups[k].replies[m].id = r.id
                    /\ Groups[k].replies[m].profiles = NoProfile
        /\ \A k \in 1..Len(Groups) :
            /\ Groups[k].profiles = ProfileFor(Groups[k].user_id)
            /\ \A m \in 1..Len(Groups[k].replies) :
                LET item == Groups[k].replies[m] IN
                /\ item.profiles = ProfileFor(item.user_id)
                /\ ~IsDirectItem(item) => item.parent.profiles = ProfileFor(item.parent.user_id)

C18_Witness ==
    /\ asm.pc = "done"
    /\ Len(Groups) >= 2
    /\ Groups[2].user_id \notin DOMAIN asm.profilesMap
    /\ Groups[2].profiles = NoProfile
    /\ Groups[2].replies # <<>>
    /\ Groups[1].profiles # NoProfile

\* ------------------------------------------- more properties of the page
\* a query of the call of slot s has returned an error
QueryFailed(s) == loads[s].failed \/ (loads[s].pc = "topResp" /\ ~loads[s].respOk)

\* C15: a call of fetchComments one of whose queries failed (top-level
\* comments, direct replies, nested replies, profiles or like membership)
\* returns with the could-not-load notice shown, so that no list missing the
\* rows of a failed query is displayed without the notice.
C15_FailedQueryShowsNotice ==
    [][\A s \in Slots : (Returns(s) /\ QueryFailed(s)) => toast' = "loadFailed"]_vars

C11_DeletedOffersNoAction ==
    \A c \in DisplayedRows :
        c.deleted_at # NULL =>
            /\ CommentBlock(c).body = "deletedPlaceholder"
            /\ ~CommentBlock(c).likeButton
            /\ ~CommentBlock(c).replyButton
            /\ ~CommentBlock(c).editButton
            /\ ~CommentBlock(c).deleteButton
            /\ ~ReplyFormShown(c.id)

\* a like call of slot w, made on a comment that was shown as liked,
\* resumes in this step
UnlikeResumes(w) ==
    /\ writes[w].pc = "resp" /\ writes[w].kind = "like" /\ writes[w].liked
    /\ writes'[w].pc = "done"

FlooredLess(n) == IF n - 1 < 0 THEN 0 ELSE n - 1

\* C12: a displayed comment is shown as liked exactly when its identifier is
\* in likedCommentIds; when a like toggle made on a liked comment resumes,
\* the identifier leaves likedCommentIds and every displayed item of that
\* identifier has its likes_count lowered by one, floored at zero
C12_LikedIffInSetAndUnlikeLowers ==
    /\ [](\A c \in DisplayedRows : CommentBlock(c).liked <=> c.id \in likedCommentIds)
    /\ [][\A w \in WriteSlots :
            UnlikeResumes(w) =>
                /\ writes[w].commentId \notin likedCommentIds'
                /\ Len(comments') = Len(comments)
                /\ \A c \in DisplayedRows :
                      c.id = writes[w].commentId =>
                          \E d \in DisplayedRows' :
                              d.id = c.id /\ d.likes_count = FlooredLess(c.likes_count)
                /\ \A d \in DisplayedRows' :
                      d.id = writes[w].commentId =>
                          /\ d.likes_count >= 0
                          /\ \E c \in DisplayedRows :
                                c.id = d.id /\ d.likes_count = FlooredLess(c.likes_count)]_vars

\* the viewer u1 has taken back the like on reply 2, whose count was already
\* zero: the call has resumed, 2 is displayed, not liked, with a count of zero
C12_Witness ==
    /\ user = "u1"
    /\ \E w \in WriteSlots : writes[w].pc = "done"
    /\ <<2, "u1">> \notin comment_likes
    /\ 2 \notin likedCommentIds
    /\ \E c \in DisplayedRows : c.id = 2 /\ c.likes_count = 0 /\ ~CommentBlock(c).liked

\* ------------------------------------------- properties of the page's writes
\* a handler resumes in this step after its write has succeeded
InsertDone ==
    \/ commentSubmit.pc = "resp" /\ commentSubmit.ok /\ commentSubmit'.pc = "idle"
    \/ replySubmit.pc = "resp" /\ replySubmit.ok /\ replySubmit'.pc = "idle"

WriteDone(w, kind) ==
    /\ writes[w].pc = "resp" /\ writes[w].kind = kind /\ writes[w].ok
    /\ writes'[w].pc = "done"

\* this step starts fetchComments(0, false) and leaves the displayed tree as
\* it is
ReloadsUnpatched ==
    /\ \E s \in Slots :
        /\ loads[s].pc = "idle" /\ loads'[s].pc = "top"
        /\ loads'[s].page = 0 /\ ~loads'[s].append
    /\ comments' = comments

\* C13 as stated: when the handler of a successful new comment, new reply,
\* edit, soft delete or like toggle resumes, it starts the full comment load
\* and does not patch the displayed tree
C13_Original ==
    [][(InsertDone \/ \E w \in WriteSlots : \E kind \in {"edit", "delete", "like"} :
                        WriteDone(w, kind))
            => ReloadsUnpatched]_vars

\* C13, amended: when the handler of a successful new comment, new reply,
\* edit or soft delete resumes, it starts the full comment load and does not
\* patch the displayed tree; when the handler of a successful like toggle
\* resumes, it starts no load: it toggles the identifier in likedCommentIds
\* and patches the displayed tree in place, which keeps its items
C13_ReloadExceptLike ==
    [][/\ (InsertDone \/ \E w \in WriteSlots : \E kind \in {"edit", "delete"} :
                            WriteDone(w, kind))
            => ReloadsUnpatched
       /\ \A w \in WriteSlots :
            WriteDone(w, "like") =>
                /\ loads' = loads
                /\ (writes[w].commentId \in likedCommentIds') = ~writes[w].liked
                /\ MapIds(comments') = MapIds(comments)
                /\ \A k \in 1..Len(comments) :
                      MapIds(comments'[k].replies) = MapIds(comments[k].replies)]_vars

\* the soft delete of comment 1 has succeeded and its handler has resumed:
\* the reload is in flight and the displayed item is still the undeleted one
C13_Witness ==
    /\ toast = "deleteDone"
    /\ \E r \in db : r.id = 1 /\ r.deleted_at # NULL
    /\ \E c \in DisplayedRows : c.id = 1 /\ c.deleted_at = NULL
    /\ \E s \in Slots : loads[s].pc = "top" /\ loads[s].page = 0

\* the backend runs, in this step, a request of the given kind that a
\* handler sent with the identifier of user u
ServedFor(kind, u) ==
    \E w \in WriteSlots :
        /\ writes[w].pc = "sent" /\ writes'[w].pc = "resp"
        /\ writes[w].kind = kind /\ writes[w].user = u

\* C14: no step of the page removes a comment record or changes its
\* identifier, author, parent or creation time; the content of a record
\* changes only when an edit sent with its author's identifier is run, and
\* its deleted_at changes only when a soft delete sent with its author's
\* identifier is run, which sets it and leaves the content
C14_OnlyAuthorWritesNoRemoval ==
    [][\A r \in db :
        \E n \in db' :
            /\ n.id = r.id /\ n.user_id = r.user_id
            /\ n.parent_id = r.parent_id /\ n.created_at = r.created_at
            /\ n.content # r.content =>
                    ServedFor("edit", r.user_id) /\ n.deleted_at = r.deleted_at
            /\ n.deleted_at # r.deleted_at =>
                    /\ ServedFor("delete", r.user_id)
                    /\ n.deleted_at # NULL /\ n.content = r.content]_vars

\* the soft delete an author sent for their own comment has been run: the
\* record is still in the table, with its content, and deleted_at set
C14_Witness ==
    \E w \in WriteSlots :
        /\ writes[w].pc = "resp" /\ writes[w].kind = "delete" /\ writes[w].ok
        /\ \E r \in db :
            /\ r.id = writes[w].commentId /\ r.user_id = writes[w].user
            /\ r.deleted_at # NULL /\ r.content = "text"
        /\ Cardinality(db) = Cardinality(Discussion)

\* ------------------------------------------- properties of the routes
\* a successful LoginPage.handleSubmit call resumes in this step
LoginSucceeds ==
    loginCall.pc = "resp" /\ loginCall.ok /\ loginCall'.pc = "done"

\* C19: a page of /write, /edit/:id, /mypage or /mypage/edit is rendered only
\* with a signed-in user and the auth state loaded (and EditPage is mounted
\* only then); when the auth state is loaded, there is no user and the
\* location is one of these, the next step shows /login with that location
\* as location.state.from; and a successful login shows the from location
\* its form was opened with, or / when there was none
C19_ProtectedPagesNeedUser ==
    /\ []((path.name \in Protected /\ Rendered = "page") => (user # NoUser /\ ~authLoading))
    /\ [](editPage.mounted => (user # NoUser /\ ~authLoading /\ path.name = "/edit/:id"))
    /\ [][(path.name \in Protected /\ ~authLoading /\ user = NoUser)
            => (path' = Route("/login", NULL) /\ stateFrom' = path)]_vars
    /\ [][LoginSucceeds
            => path' = (IF loginCall.from = NoPath THEN Route("/", NULL)
                        ELSE loginCall.from)]_vars

\* a visitor without a session was sent from /write to /login, has logged in
\* as u2 and is shown /write
C19_Witness ==
    /\ loginCall.pc = "done" /\ loginCall.ok
    /\ loginCall.from = Route("/write", NULL)
    /\ loginCall.user = "u2"
    /\ path = Route("/write", NULL)
    /\ user = "u2"
    /\ Rendered = "page"

\* C20: every update and every delete the client sends to public.posts
\* carries an eq('user_id', ...) filter set to the identifier of the user who
\* sends it, and the edit form is shown only for a post written by the user
C20_PostRequestsOwnerOnly ==
    /\ postRequest.pc # "idle" =>
            (postRequest.filtered /\ postRequest.user_id = postRequest.by)
    /\ EditFormShown => PostRow(editPage.post).user_id = user

\* ------------------------------------------- properties of the recent searches
NoRepeat(list) == \A i, j \in 1..Len(list) : list[i] = list[j] => i = j

\* an addRecentSearch call whose query is not blank
EffectiveAdd == \E q \in Queries : trim(q) # <<>> /\ addRecentSearch(q)

RECURSIVE SumOver(_, _)
SumOver(f, S) ==
    IF S = {} THEN 0
    ELSE LET x == CHOOSE y \in S : TRUE IN f[x] + SumOver(f, S \ {x})

RowsOfPost(p) == SumOver(likes, {p} \X Likers)

\* C22: public.likes holds at most one row per post and user, and
\* posts.likes_count of every post is the number of likes rows of the post,
\* never negative
C22_OneLikeEachCountExact ==
    /\ \A k \in PostIds \X Likers : likes[k] <= 1
    /\ \A p \in PostIds : likes_count[p] = RowsOfPost(p) /\ likes_count[p] >= 0

\* post 1 is liked by every user but user 1 and counts that many likes;
\* post 2 is liked by nobody
C22_Witness ==
    /\ likes_count[1] = MaxLikers - 1
    /\ likes[<<1, 1>>] = 0
    /\ likes_count[2] = 0

\* ------------------------------------------- the back-references of the assembly
\* C23: in the reply list of every assembled group, an item has a null
\* parent exactly when its parent_id is the id of the group's top-level
\* comment, and otherwise its parent is the direct reply of the same list
\* whose id is the item's parent_id
C23_BackReferenceIffNested ==
    asm.pc = "done" =>
        \A k \in 1..Len(Groups) :
            LET rs == Groups[k].replies IN
            \A i \in 1..Len(rs) :
                /\ (rs[i].parent = NullRow) <=> (rs[i].parent_id = Groups[k].id)
                /\ (rs[i].parent # NullRow) <=>
                        \E j \in 1..Len(rs) :
                            /\ rs[j].parent_id = Groups[k].id
                            /\ rs[j].id = rs[i].parent_id
                            /\ rs[i].parent.id = rs[j].id

\* a group holds a direct reply and a reply to that direct reply
C23_Witness ==
    /\ asm.pc = "done"
    /\ \E k \in 1..Len(Groups) :
        LET rs == Groups[k].replies IN
        \E i, j \in 1..Len(rs) :
            /\ rs[i].parent = NullRow /\ rs[i].parent_id = Groups[k].id
            /\ rs[j].parent # NullRow /\ rs[j].parent_id = rs[i].id

\* ------------------------------------------- properties of the tag field
\* C24: from the empty form on, the tag list holds at most 5 tags, no tag
\* twice and no empty or whitespace-only tag; handleAddTag either appends the
\* trimmed text of the field, which was not blank, not in the list, and the
\* list was not full, or leaves the list as it was; handleRemoveTag only
\* takes tags away
C24_TagListWellFormed ==
    /\ [](/\ Len(tags) <= 5
          /\ NoRepeat(tags)
          /\ \A i \in 1..Len(tags) : trim(tags[i]) # <<>>)
    /\ [][handleAddTag =>
            \/ tags' = tags
            \/ /\ tags' = Append(tags, trim(tagInput))
               /\ trim(tagInput) # <<>>
               /\ Len(tags) < 5
               /\ \A i \in 1..Len(tags) : tags[i] # trim(tagInput)]_vars
    /\ [][(trim(tagInput) = <<>> \/ Len(tags) >= 5
            \/ \E i \in 1..Len(tags) : tags[i] = trim(tagInput))
          /\ handleAddTag => tags' = tags]_vars

\* five tags are listed, the last of them typed with a blank before it, and
\* the field is empty and disabled
C24_Witness ==
    /\ Len(tags) = 5
    /\ tags[1] = <<"b">>
    /\ tags[5] = <<"a">>
    /\ tagInput = <<>>

\* ------------------------------------------- the page counter of load-more
\* C25: when the displayed list is a single window that a reload after a
\* comment or a reply has put there (the notice of the insert is still the
\* last one shown) and no load is in flight, loadMoreComments fetches
\* window 1, the window that follows the displayed one
C25_LoadMoreAfterReloadFetchesNext ==
    [][(/\ loadMoreComments
        /\ toast \in {"commentDone", "replyDone"}
        /\ \A s \in Slots : loads[s].pc = "idle"
        /\ Len(comments) <= COMMENTS_PAGE_SIZE)
            => (commentPage' = 1 /\ loads'[FreeSlot].page = 1)]_vars

\* C26: whatever the interleaving of the initial load, load-more and the
\* reloads, and whatever is inserted between two window fetches, no
\* top-level comment is displayed twice
C26_NoTopLevelTwice == NoRepeat(MapIds(comments))

\* ------------------------------------------- the end of a comment load
\* C27: a call of fetchComments that has started returns, and it returns
\* with commentsLoading false, whether it stores a tree, finds an empty
\* first window, finds an empty appended window or a query fails; and
\* commentsLoading is never true while no call is in flight
C27_LoadEndsWithFlagDown ==
    /\ \A s \in Slots : (loads[s].pc # "idle") ~> (loads[s].pc = "idle")
    /\ [][\A s \in Slots : Returns(s) => commentsLoading' = FALSE]_vars
    /\ []((\A s \in Slots : loads[s].pc = "idle") => ~commentsLoading)

\* a load-more call has returned from an empty appended window: the counter
\* is 1, the list is still the first window, no more is offered, no notice
C27_Witness ==
    /\ commentPage = 1
    /\ Len(comments) = COMMENTS_PAGE_SIZE
    /\ ~hasMoreComments
    /\ toast = "none"
    /\ \A s \in Slots : loads[s].pc = "idle"
    /\ ~commentsLoading

\* ------------------------------------------- the like toggle and the backend
\* C28: when a handleToggleLike call resumes, whether the backend has run
\* its insert or delete or has rejected it, the comment is in likedCommentIds
\* exactly when comment_likes holds the row of the comment and the viewer
C28_LikedSetFollowsRecords ==
    [][\A w \in WriteSlots :
            LikeResolved(w) =>
                (writes[w].commentId \in likedCommentIds'
                    <=> <<writes[w].commentId, writes[w].user>> \in comment_likes')]_vars

\* ------------------------------------------- the checks before a write
\* the text passes the checks the claim names
ContentOk(text) == trim(text) # <<>> /\ Len(trim(text)) <= COMMENT_MAX_LENGTH

\* a request goes out in this step: an insert of a comment or of a reply, or
\* an update of a comment's content
CommentSent == commentSubmit.pc = "idle" /\ commentSubmit'.pc = "sent"
ReplySent == replySubmit.pc = "idle" /\ replySubmit'.pc = "sent"
EditSent == \E w \in WriteSlots : writes[w].pc # "sent" /\ writes'[w].pc = "sent"
NothingWritten ==
    /\ ~CommentSent /\ ~ReplySent /\ ~EditSent
    /\ UNCHANGED <<db, comments>>

====
